---- MODULE Spec2Model ----
(***************************************************************************)
(* The guided field-collection conversation engine of the incident bot     *)
(* (socket_app.py): the per-thread conversation state kept in `state`, the *)
(* per-user session store SESSIONS, and the message handler                *)
(* handle_message_events that moves a conversation through the preface,    *)
(* the question loop, the proposal confirmation and the finalize/jira      *)
(* guard.                                                                  *)
(*                                                                         *)
(* Text is a sequence of one-character strings, so that strip(), lower(),  *)
(* startswith(), split() and lstrip() are computed as Python computes      *)
(* them.  Message texts posted with say() are recorded by the name of the  *)
(* MSG builder that produced them; looking a builder up in the message     *)
(* catalogue is taken to succeed.                                          *)
(***************************************************************************)
EXTENDS Integers, Sequences, FiniteSets, TLC

VARIABLES state, SESSIONS, roots, event, said, call, jira

vars == <<state, SESSIONS, roots, event, said, call, jira>>

(***************************************************************************)
(* Bounds of the model.                                                    *)
(***************************************************************************)
\* number of catalogue fields asked before the binary-gate field
\* the age of a session, in days, goes up to MaxDays
MaxDays == 3

\* a record handed to the export on its own has values in at most MaxFilled fields
MaxFilled == 2

NBefore == 1
\* number of catalogue fields asked after the binary-gate field
NAfter == 1
\* longest per-field history (turns) a proposal may accumulate
MaxHistory == 4
\* longest autofill queue a conversation starts with
MaxQueue == 2
\* longest piece of a key or label tried as a token
MaxPiece == 3
\* number of conversation keys (channel, thread_ts)
NThreads == 2

(***************************************************************************)
(* Python str operations on texts.                                         *)
(***************************************************************************)
\* the value None where Python holds None instead of a str
None == <<"<None>">>

\* the exception raised inside a call to an external service
ExternalError == <<"<error>">>

Whitespace == {" ", "\n"}

UpperToLower ==
    [c \in {"A", "D", "E", "J", "N", "O", "S", "Y", "K", "L", "I", "T", "R"} |->
        CASE c = "A" -> "a" [] c = "D" -> "d" [] c = "E" -> "e" [] c = "J" -> "j"
          [] c = "N" -> "n" [] c = "O" -> "o" [] c = "S" -> "s" [] c = "Y" -> "y"
          [] c = "K" -> "k" [] c = "L" -> "l" [] c = "I" -> "i" [] c = "T" -> "t"
          [] c = "R" -> "r"]

\* str.lower()
Lower(s) == [i \in 1..Len(s) |-> IF s[i] \in DOMAIN UpperToLower THEN UpperToLower[s[i]] ELSE s[i]]

\* str.lstrip(chars)
RECURSIVE LStripChars(_, _)
LStripChars(s, chars) ==
    IF s # <<>> /\ Head(s) \in chars THEN LStripChars(Tail(s), chars) ELSE s

\* str.rstrip(chars)
RECURSIVE RStripChars(_, _)
RStripChars(s, chars) ==
    IF s # <<>> /\ s[Len(s)] \in chars THEN RStripChars(SubSeq(s, 1, Len(s) - 1), chars) ELSE s

\* str.strip()
Strip(s) == RStripChars(LStripChars(s, Whitespace), Whitespace)

\* str.startswith(p)
StartsWith(s, p) == Len(p) <= Len(s) /\ SubSeq(s, 1, Len(p)) = p

\* `sub in s` for two str
Contains(s, sub) ==
    \E i \in 0..(Len(s) - Len(sub)) : SubSeq(s, i + 1, i + Len(sub)) = sub

\* position of the first occurrence of the one-character separator, 0 if none
RECURSIVE FindChar(_, _, _)
FindChar(s, c, from) ==
    IF from > Len(s) THEN 0
    ELSE IF s[from] = c THEN from ELSE FindChar(s, c, from + 1)

\* str.split(" ", maxsplit): the list of parts
RECURSIVE Split(_, _)
Split(s, maxsplit) ==
    LET p == FindChar(s, " ", 1) IN
    IF maxsplit = 0 \/ p = 0 THEN <<s>>
    ELSE <<SubSeq(s, 1, p - 1)>> \o Split(SubSeq(s, p + 1, Len(s)), maxsplit - 1)

\* isinstance(v, str) and v.strip()
NonBlank(v) == v # None /\ Strip(v) # <<>>

\* str.replace(".", "").isdigit()
IsNumberToken(s) ==
    LET digits == SelectSeq(s, LAMBDA c : c # ".") IN
    digits # <<>> /\ \A i \in 1..Len(digits) :
        digits[i] \in {"0", "1", "2", "3", "4", "5", "6", "7", "8", "9"}

(***************************************************************************)
(* FieldCatalog: DUTCH_FIELD_LABELS, in its dictionary order.              *)
(***************************************************************************)
DUTCH_FIELD_LABELS ==
    << [key |-> <<"b", "e", "s", "c", "h", "r", "i", "j", "v", "i", "n", "g", "_", "a", "f", "w", "i", "j", "k", "i", "n", "g">>, label |-> <<"1", ".", " ", "D", "e", "s", "c", "r", "i", "p", "t", "i", "o", "n", " ", "o", "f", " ", "d", "e", "v", "i", "a", "t", "i", "o", "n">>],
       [key |-> <<"m", "a", "a", "t", "r", "e", "g", "e", "l", "e", "n", "_", "b", "e", "h", "e", "e", "r", "s", "e", "n", "_", "c", "o", "r", "r", "i", "g", "e", "r", "e", "n">>, label |-> <<"2", ".", "1", " ", "M", "e", "a", "s", "u", "r", "e", "s", " ", "t", "o", " ", "c", "o", "n", "t", "r", "o", "l", " ", "a", "n", "d", " ", "c", "o", "r", "r", "e", "c", "t", " ", "t", "h", "e", " ", "d", "e", "v", "i", "a", "t", "i", "o", "n">>],
       [key |-> <<"a", "a", "n", "p", "a", "s", "s", "e", "n", "_", "c", "o", "n", "s", "e", "q", "u", "e", "n", "t", "i", "e", "s">>, label |-> <<"2", ".", "2", " ", "A", "d", "j", "u", "s", "t", " ", "c", "o", "n", "s", "e", "q", "u", "e", "n", "c", "e", "s">>],
       [key |-> <<"r", "i", "s", "i", "c", "o", "a", "f", "w", "e", "g", "i", "n", "g">>, label |-> <<"2", ".", "3", " ", "R", "i", "s", "k", " ", "a", "s", "s", "e", "s", "s", "m", "e", "n", "t">>],
       [key |-> <<"o", "o", "r", "z", "a", "a", "k", "_", "o", "n", "t", "s", "t", "a", "a", "n">>, label |-> <<"3", ".", "1", " ", "C", "a", "u", "s", "e", " ", "o", "f", " ", "t", "h", "e", " ", "d", "e", "v", "i", "a", "t", "i", "o", "n">>],
       [key |-> <<"g", "e", "v", "o", "l", "g", "e", "n">>, label |-> <<"3", ".", "2", " ", "C", "o", "n", "s", "e", "q", "u", "e", "n", "c", "e", "s", " ", "o", "f", " ", "t", "h", "e", " ", "d", "e", "v", "i", "a", "t", "i", "o", "n">>],
       [key |-> <<"o", "o", "r", "z", "a", "a", "k", "_", "w", "e", "g", "n", "e", "m", "e", "n">>, label |-> <<"3", ".", "3", " ", "R", "e", "m", "o", "v", "e", " ", "c", "a", "u", "s", "e">>],
       [key |-> <<"e", "l", "d", "e", "r", "s", "_", "v", "o", "o", "r", "g", "e", "d", "a", "a", "n">>, label |-> <<"3", ".", "4", " ", "C", "o", "u", "l", "d", " ", "t", "h", "e", " ", "d", "e", "v", "i", "a", "t", "i", "o", "n", " ", "h", "a", "v", "e", " ", "o", "c", "c", "u", "r", "r", "e", "d", " ", "e", "l", "s", "e", "w", "h", "e", "r", "e">>],
       [key |-> <<"a", "c", "t", "i", "e", "s", "_", "e", "l", "d", "e", "r", "s">>, label |-> <<"3", ".", "5", " ", "A", "c", "t", "i", "o", "n", "s", " ", "o", "n", " ", "d", "e", "v", "i", "a", "t", "i", "o", "n", " ", "t", "h", "a", "t", " ", "o", "c", "c", "u", "r", "r", "e", "d", " ", "e", "l", "s", "e", "w", "h", "e", "r", "e">>],
       [key |-> <<"d", "o", "e", "l", "t", "r", "e", "f", "f", "e", "n", "d", "h", "e", "i", "d">>, label |-> <<"4", ".", "1", " ", "E", "f", "f", "e", "c", "t", "i", "v", "e", "n", "e", "s", "s", " ", "o", "f", " ", "t", "h", "e", " ", "m", "e", "a", "s", "u", "r", "e", "s", " ", "t", "a", "k", "e", "n">>],
       [key |-> <<"a", "c", "t", "u", "a", "l", "i", "s", "a", "t", "i", "e", "_", "r", "i", "s", "i", "c", "o">>, label |-> <<"4", ".", "2", " ", "U", "p", "d", "a", "t", "e", " ", "o", "f", " ", "r", "i", "s", "k", " ", "i", "n", "v", "e", "n", "t", "o", "r", "y", " ", "b", "a", "s", "e", "d", " ", "o", "n", " ", "d", "e", "v", "i", "a", "t", "i", "o", "n", " ", "(", "i", "f", " ", "a", "p", "p", "l", "i", "c", "a", "b", "l", "e", ")">>],
       [key |-> <<"a", "a", "n", "p", "a", "s", "s", "i", "n", "g", "_", "k", "w", "a", "l", "i", "t", "e", "i", "t", "s", "s", "y", "s", "t", "e", "e", "m">>, label |-> <<"4", ".", "3", " ", "A", "d", "j", "u", "s", "t", "m", "e", "n", "t", " ", "t", "o", " ", "q", "u", "a", "l", "i", "t", "y", " ", "s", "y", "s", "t", "e", "m", " ", "(", "i", "f", " ", "a", "p", "p", "l", "i", "c", "a", "b", "l", "e", ")">>],
       [key |-> <<"l", "e", "e", "r", "p", "u", "n", "t", "e", "n">>, label |-> <<"5", ".", " ", "L", "e", "s", "s", "o", "n", "s", " ", "l", "e", "a", "r", "n", "e", "d">>] >>

\* position of the binary-gate field in DUTCH_FIELD_LABELS
GatePosition == CHOOSE f \in 1..Len(DUTCH_FIELD_LABELS) : DUTCH_FIELD_LABELS[f].key = <<"r", "i", "s", "i", "c", "o", "a", "f", "w", "e", "g", "i", "n", "g">>

\* the catalogue the model asks for: the fields around the binary-gate field,
\* in catalogue order
Catalog ==
    SubSeq(DUTCH_FIELD_LABELS,
           IF GatePosition - NBefore > 1 THEN GatePosition - NBefore ELSE 1,
           IF GatePosition + NAfter < Len(DUTCH_FIELD_LABELS) THEN GatePosition + NAfter
           ELSE Len(DUTCH_FIELD_LABELS))

\* positions of the catalogue; a field is named by its position
Fields == 1..Len(Catalog)

\* the binary-gate field "risicoafweging"
risicoafweging == CHOOSE f \in Fields : Catalog[f].key = <<"r", "i", "s", "i", "c", "o", "a", "f", "w", "e", "g", "i", "n", "g">>

\* the numeric prefix of a label: label.split(" ")[0].strip()
LabelNumber(label) == Strip(Split(label, -1)[1])

\* questions[i].field_key for the 0-based question index i (one question per
\* catalogue field, in catalogue order)
QField(i) == i + 1

\* len(questions)
NQuestions == Len(Catalog)

(***************************************************************************)
(* Token sets and parsers.                                                 *)
(***************************************************************************)
_is_accept(text) ==
    Lower(Strip(text)) \in {<<"j", "a">>, <<"o", "k">>, <<"o", "k", "a", "y">>, <<"a", "k", "k", "o", "o", "r", "d">>, <<"y", "e", "s">>, <<"y">>, <<"a", "c", "c", "e", "p", "t">>}

_is_yes(text) == Lower(Strip(text)) \in {<<"j", "a">>, <<"y", "e", "s">>, <<"y">>}

\* variant of _is_no that does not know the token `no`
_is_no_without_no(text) == Lower(Strip(text)) \in {<<"n", "e", "e">>, <<"n">>}

_is_no(text) == Lower(Strip(text)) \in {<<"n", "e", "e">>, <<"n", "o">>, <<"n">>}

\* (forced_mode or None, remaining_text); the mode is "story", "literal" or "None"
_parse_mode_prefix(text) ==
    LET s == Strip(text)
        l == Lower(s)
    IN  IF StartsWith(l, <<"s", "t", "o", "r", "y">>)
        THEN [forced |-> "story", rest |-> LStripChars(SubSeq(s, Len(<<"s", "t", "o", "r", "y">>) + 1, Len(s)), {" ", ":"})]
        ELSE IF StartsWith(l, <<"l", "i", "t", "e", "r", "a", "l">>)
        THEN [forced |-> "literal", rest |-> LStripChars(SubSeq(s, Len(<<"l", "i", "t", "e", "r", "a", "l">>) + 1, Len(s)), {" ", ":"})]
        ELSE [forced |-> "None", rest |-> s]

\* variant of NUMBER_INDEX that indexes the labels by their first digit only
NUMBER_INDEX_by_chapter(t) ==
    LET hits == {f \in Fields : IsNumberToken(LabelNumber(Catalog[f].label))
                                 /\ t # <<>>
                                 /\ LabelNumber(Catalog[f].label)[1] = t[1]}
    IN  IF hits = {} THEN 0 ELSE CHOOSE f \in hits : \A g \in hits : g <= f

\* number token -> field, later labels overwriting earlier ones
NUMBER_INDEX(t) ==
    LET hits == {f \in Fields : IsNumberToken(LabelNumber(Catalog[f].label))
                                 /\ LabelNumber(Catalog[f].label) = t}
    IN  IF hits = {} THEN 0 ELSE CHOOSE f \in hits : \A g \in hits : g <= f

\* the first of a set of fields in catalogue order, 0 if the set is empty
FirstField(hits) ==
    IF hits = {} THEN 0 ELSE CHOOSE f \in hits : \A g \in hits : f <= g

\* variant of _resolve_field_key that looks at the keys before the labels
_resolve_key_parts_first(user_token) ==
    LET t == Lower(Strip(user_token))
        byKey == FirstField({f \in Fields : Catalog[f].key = t})
        byLabel == FirstField({f \in Fields : Contains(Lower(Catalog[f].label), t)})
        byKeyPart == FirstField({f \in Fields : Contains(Lower(Catalog[f].key), t)})
    IN  IF t = <<>> THEN 0
        ELSE IF byKey # 0 THEN byKey
        ELSE IF NUMBER_INDEX(t) # 0 THEN NUMBER_INDEX(t)
        ELSE IF byKeyPart # 0 THEN byKeyPart
        ELSE byLabel

\* field for a user token (key, number or label fragment), 0 for None
_resolve_field_key(user_token) ==
    LET t == Lower(Strip(user_token))
        byKey == FirstField({f \in Fields : Catalog[f].key = t})
        byLabel == FirstField({f \in Fields : StartsWith(Lower(Catalog[f].label), t)
                                               \/ Contains(Lower(Catalog[f].label), t)})
        byKeyPart == FirstField({f \in Fields : Contains(Lower(Catalog[f].key), t)})
    IN  IF t = <<>> THEN 0
        ELSE IF byKey # 0 THEN byKey
        ELSE IF NUMBER_INDEX(t) # 0 THEN NUMBER_INDEX(t)
        ELSE IF byLabel # 0 THEN byLabel
        ELSE byKeyPart

(***************************************************************************)
(* The drafting service.  `llm` is what the chat-completion call does when *)
(* it is made: it raises (ExternalError) or returns a completion text.          *)
(***************************************************************************)
\* variant of _rewrite_with_model that returns nothing when the call raises
_rewrite_or_nothing(raw_text, llm) ==
    IF ~NonBlank(raw_text) \/ llm = ExternalError THEN <<>> ELSE Strip(llm)

_rewrite_with_model(raw_text, llm) ==
    IF ~NonBlank(raw_text) THEN <<>>
    ELSE IF llm = ExternalError THEN raw_text
    ELSE Strip(llm)

\* content of the last assistant turn, stripped; "" if there is none
LastAssistant(history) ==
    LET at == {i \in 1..Len(history) : history[i].role = "assistant"}
    IN  IF at = {} THEN <<>>
        ELSE Strip(history[CHOOSE i \in at : \A j \in at : j <= i].content)

\* variant of _revise_with_history that never asks for a revision
_revise_keeping_last(history, instructions, llm) == LastAssistant(history)

_revise_with_history(history, instructions, llm) ==
    IF ~NonBlank(instructions) THEN LastAssistant(history)
    ELSE IF llm = ExternalError THEN instructions
    ELSE Strip(llm)

(***************************************************************************)
(* Conversation state: one dict per (channel, thread_ts) key.              *)
(***************************************************************************)
\* conv["pending"] = None
NoPending == [field |-> 0, candidate |-> None, history |-> <<>>]

\* no entry for the key in `state`
NoConv ==
    [status |-> "none", preface_index |-> 0, data |-> [f \in Fields |-> None],
     index |-> 0, mode |-> "story", pending |-> NoPending, confirm_action |-> "None",
     override_incomplete |-> FALSE, autofill_queue |-> <<>>]

\* the dict stored when the preface starts
PrefaceConv == [NoConv EXCEPT !.status = "preface", !.preface_index = 1]

\* the dict stored when the questionnaire starts (extractor.extract(""))
CollectingConv == [NoConv EXCEPT !.status = "collecting"]

\* pending and pending.get("field")
HasPending(conv) == conv.pending.field # 0

\* pending.get("candidate") or ""
CandidateOrEmpty(pending) == IF pending.candidate = None THEN <<>> ELSE pending.candidate

\* variant of _set_pending_with_history that also writes the draft to the record
_set_pending_and_record(conv, field, user_text, draft_value) ==
    [conv EXCEPT !.data[field] = draft_value,
                 !.pending =
        [field |-> field, candidate |-> draft_value,
         history |-> << [role |-> "user", content |-> user_text],
                        [role |-> "assistant", content |-> draft_value] >>]]

\* variant of _set_pending_with_history that keeps the turns already there
_set_pending_keeping_history(conv, field, user_text, draft_value) ==
    [conv EXCEPT !.pending =
        [field |-> field, candidate |-> draft_value,
         history |-> conv.pending.history \o
                     << [role |-> "user", content |-> user_text],
                        [role |-> "assistant", content |-> draft_value] >>]]

\* variant of _set_pending_with_history that makes story the persistent mode
_set_pending_and_mode(conv, field, user_text, draft_value) ==
    [conv EXCEPT !.mode = "story",
                 !.pending =
        [field |-> field, candidate |-> draft_value,
         history |-> << [role |-> "user", content |-> user_text],
                        [role |-> "assistant", content |-> draft_value] >>]]

\* variant of _set_pending_with_history that records the user turn only
_set_pending_with_user_turn(conv, field, user_text, draft_value) ==
    [conv EXCEPT !.pending =
        [field |-> field, candidate |-> draft_value,
         history |-> << [role |-> "user", content |-> user_text] >>]]

_set_pending_with_history(conv, field, user_text, draft_value) ==
    [conv EXCEPT !.pending =
        [field |-> field, candidate |-> draft_value,
         history |-> << [role |-> "user", content |-> user_text],
                        [role |-> "assistant", content |-> draft_value] >>]]

\* variant of _compute_next_index that scans from the first question
_compute_first_open_index(conv, start_index) ==
    IF \E i \in 0..(NQuestions - 1) : ~NonBlank(conv.data[QField(i)])
    THEN CHOOSE i \in 0..(NQuestions - 1) :
            /\ ~NonBlank(conv.data[QField(i)])
            /\ \A j \in 0..(i - 1) : NonBlank(conv.data[QField(j)])
    ELSE NQuestions

\* index of the next unanswered question, scanning from start_index
RECURSIVE _compute_next_index(_, _)
_compute_next_index(conv, start_index) ==
    LET i == IF start_index > 0 THEN start_index ELSE 0 IN
    IF i < NQuestions /\ NonBlank(conv.data[QField(i)])
    THEN _compute_next_index(conv, i + 1)
    ELSE i

(***************************************************************************)
(* Sessions: one dict per user.                                            *)
(***************************************************************************)
\* the users who write to the bot
Users == {"U1"}

\* the users named as reporter by link events and block actions
Reporters == {"U1", "U2"}

\* the incident keys found in shared links
Keys == {"K1", "K2", "K3"}

\* the direct-message channel of every user
DmChannel == "D"

\* no entry for the user in SESSIONS
NoSession ==
    [state |-> "absent", linked_issue_key |-> "None", pending_incident_keys |-> <<>>,
     dm_channel |-> "None"]

\* the session stored for a user without one
IdleSession ==
    [state |-> "IDLE", linked_issue_key |-> "None", pending_incident_keys |-> <<>>,
     dm_channel |-> "None"]

_get_or_create_session(sessions, user_id) ==
    IF sessions[user_id].state = "absent"
    THEN [sessions EXCEPT ![user_id] = IdleSession]
    ELSE sessions

_set_session_dm(sessions, user_id, channel_id) ==
    [_get_or_create_session(sessions, user_id) EXCEPT ![user_id].dm_channel = channel_id]

\* variant of _link_issue_to_session that empties the pending keys
_link_issue_clearing_pending(sessions, user_id, issue_key) ==
    [_get_or_create_session(sessions, user_id) EXCEPT
        ![user_id].linked_issue_key = issue_key,
        ![user_id].state = "ACTIVE",
        ![user_id].pending_incident_keys = <<>>]

\* variant of _link_issue_to_session that leaves the session's state alone
_link_issue_keeping_state(sessions, user_id, issue_key) ==
    [_get_or_create_session(sessions, user_id) EXCEPT ![user_id].linked_issue_key = issue_key,
        ![user_id].pending_incident_keys = SelectSeq(@, LAMBDA k : k # issue_key)]

_link_issue_to_session(sessions, user_id, issue_key) ==
    [_get_or_create_session(sessions, user_id) EXCEPT
        ![user_id].linked_issue_key = issue_key,
        ![user_id].state = "ACTIVE",
        ![user_id].pending_incident_keys = SelectSeq(@, LAMBDA k : k # issue_key)]

(***************************************************************************)
(* What handle_message_events computes from the text of a message alone,   *)
(* wherever in the handler it does so.                                     *)
(***************************************************************************)
IsStart(text) == text \in {<<"s", "t", "a", "r", "t">>, <<"/", "s", "t", "a", "r", "t">>}

\* the message is `new` or starts with `new `
IsNew(text) ==
    LET lower == Lower(Strip(text)) IN StartsWith(lower, <<"n", "e", "w", " ">>) \/ lower = <<"n", "e", "w">>

\* the thread-level command a lower-cased message text is, "None" if it is none
NamedCommand(text) ==
    IF text \in {<<"h", "e", "l", "p">>, <<"/", "h", "e", "l", "p">>} THEN "help"
    ELSE IF text \in {<<"f", "i", "n", "a", "l", "i", "s", "e", "e", "r">>, <<"f", "i", "n", "a", "l", "i", "s", "e", "r", "e", "n">>, <<"f", "i", "n", "a", "l", "i", "z", "e">>, <<"f", "i", "n", "a", "l", "i", "s", "e", "r", "e", "n", " ", "a", "u", "b">>, <<"f", "i", "n", "a", "l", "i", "s", "e">>}
    THEN "finalize"
    ELSE IF text \in {<<"j", "i", "r", "a">>, <<"/", "j", "i", "r", "a">>} THEN "jira"
    ELSE IF text \in {<<"s", "t", "a", "t", "u", "s">>, <<"/", "s", "t", "a", "t", "u", "s">>} THEN "status"
    ELSE IF text \in {<<"f", "i", "e", "l", "d", "s">>, <<"/", "f", "i", "e", "l", "d", "s">>, <<"v", "e", "l", "d", "e", "n">>, <<"/", "v", "e", "l", "d", "e", "n">>} THEN "fields"
    ELSE IF text \in {<<"s", "h", "o", "w">>, <<"/", "s", "h", "o", "w">>, <<"t", "o", "o", "n">>, <<"/", "t", "o", "o", "n">>, <<"p", "r", "e", "v", "i", "e", "w">>, <<"/", "p", "r", "e", "v", "i", "e", "w">>} THEN "show"
    ELSE IF text \in {<<"c", "o", "n", "t", "i", "n", "u", "e">>, <<"/", "c", "o", "n", "t", "i", "n", "u", "e">>, <<"v", "e", "r", "d", "e", "r">>, <<"/", "v", "e", "r", "d", "e", "r">>} THEN "continue"
    ELSE IF StartsWith(text, <<"m", "o", "d", "e", " ">>) \/ StartsWith(text, <<"/", "m", "o", "d", "e", " ">>) THEN "mode"
    ELSE IF text \in {<<"s", "h", "o", "w", "m", "o", "d", "e">>, <<"/", "s", "h", "o", "w", "m", "o", "d", "e">>} THEN "showmode"
    ELSE IF StartsWith(text, <<"e", "d", "i", "t", " ">>) \/ StartsWith(text, <<"/", "e", "d", "i", "t", " ">>) \/ StartsWith(text, <<"w", "i", "j", "z", "i", "g", " ">>)
    THEN "edit"
    ELSE IF text \in {<<"c", "a", "n", "c", "e", "l">>, <<"/", "c", "a", "n", "c", "e", "l">>} THEN "cancel"
    ELSE "None"

\* `mode <choice>`: the choice, "None" if it is neither literal nor story
ModeChoice(text) ==
    LET choice == Lower(Strip(Split(text, 1)[2])) IN
    IF choice = <<"l", "i", "t", "e", "r", "a", "l">> THEN "literal" ELSE IF choice = <<"s", "t", "o", "r", "y">> THEN "story" ELSE "None"

\* `edit <field> <value>`: whether three parts are there, the field the token
\* resolves to and the value with its mode prefix parsed
EditParts(text_raw) ==
    LET parts == Split(text_raw, 2) IN
    IF Len(parts) < 3
    THEN [complete |-> FALSE, key |-> 0, value |-> _parse_mode_prefix(<<>>)]
    ELSE [complete |-> TRUE, key |-> _resolve_field_key(parts[2]),
          value |-> _parse_mode_prefix(parts[3])]

\* `new <value>`: the value with its mode prefix parsed
NewParts(text_raw) ==
    _parse_mode_prefix(IF FindChar(text_raw, " ", 1) # 0 THEN Split(text_raw, 1)[2] ELSE <<>>)

MessageFacts(event_text) ==
    LET text_raw == Strip(event_text)
        text == Lower(text_raw)
        cmd == NamedCommand(text)
        body == _parse_mode_prefix(text_raw)
    IN  [text_raw |-> text_raw,
         text |-> text,
         accept |-> _is_accept(text_raw),
         yes |-> _is_yes(text_raw),
         no |-> _is_no(text_raw),
         start |-> IsStart(text),
         cmd |-> cmd,
         body |-> body,
         body_yes |-> _is_yes(Lower(Strip(body.rest))),
         body_no |-> _is_no(Lower(Strip(body.rest))),
         is_new |-> IsNew(text),
         new |-> NewParts(text_raw),
         choice |-> IF cmd = "mode" THEN ModeChoice(text) ELSE "None",
         edit |-> IF cmd = "edit" THEN EditParts(text_raw) ELSE EditParts(<<>>)]

(***************************************************************************)
(* handle_message_events, branch by branch.  Each operator gives the       *)
(* conversation dict after the branch and the messages posted with say().  *)
(* `m` is MessageFacts of the message, `ext` what the chat-completion call  *)
(* made while handling it does.                                            *)
(***************************************************************************)
Result(conv, msgs) == [conv |-> conv, said |-> msgs, export |-> FALSE]

\* the branch ends with the call of _post_to_jira, which says the rest
Export(conv) == [conv |-> conv, said |-> <<>>, export |-> TRUE]

\* variant of ModeToUse that ignores the persistent mode
ModeToUseIgnoringMode(conv, parsed) == IF parsed.forced # "None" THEN parsed.forced ELSE "story"

\* variant of ModeToUse that ignores the one-shot prefix
ModeToUseIgnoringPrefix(conv, parsed) == conv.mode

\* forced or conv.get("mode", "story")
ModeToUse(conv, parsed) == IF parsed.forced # "None" THEN parsed.forced ELSE conv.mode

\* the message announcing the question at conv.index, or that none is left
NextQuestionSaid(conv, prefix, done) ==
    IF conv.index < NQuestions THEN <<"next_question", prefix>> ELSE done

\* the proposal made for the head of the autofill queue
_propose_confirmation_for_field(conv, field, ext) ==
    LET current_value == conv.data[field]
        as_str == IF current_value = None THEN <<"N", "o", "n", "e">> ELSE current_value
        value == IF NonBlank(current_value) /\ conv.mode = "story"
                 THEN _rewrite_with_model(as_str, ext)
                 ELSE as_str
    IN  _set_pending_with_history(conv, field, as_str, value)

\* variant of CommitAndAdvance that moves the cursor whatever the queue holds
CommitAndAdvancePastQueue(conv, field, value, ext) ==
    LET queue == SelectSeq(conv.autofill_queue, LAMBDA f : f # field)
        c1 == [conv EXCEPT !.data[field] = value, !.pending = NoPending,
                           !.autofill_queue = queue]
        c2 == [c1 EXCEPT !.index = _compute_next_index(c1, c1.index)]
    IN  Result(c2, NextQuestionSaid(c2, "Confirmed", <<"all_questions_answered">>))

\* commit `value` to `field`, drop the proposal, then serve the autofill queue
\* or move the cursor to the next unanswered question
CommitAndAdvance(conv, field, value, ext) ==
    LET queue == SelectSeq(conv.autofill_queue, LAMBDA f : f # field)
        c1 == [conv EXCEPT !.data[field] = value, !.pending = NoPending,
                           !.autofill_queue = queue]
        c2 == [c1 EXCEPT !.index = _compute_next_index(c1, c1.index)]
    IN  IF queue # <<>>
        THEN Result(_propose_confirmation_for_field(c1, queue[1], ext), <<"proposal">>)
        ELSE Result(c2, NextQuestionSaid(c2, "Confirmed", <<"all_questions_answered">>))

\* variant of GateCandidateBare that does not know the candidate `ja`
GateCandidateBareWithoutJa(pending) ==
    Lower(Strip(CandidateOrEmpty(pending))) \in {<<>>, <<"y", "e", "s">>}

\* variant of GateCandidateBare that never asks for the detail
GateCandidateNeverBare(pending) == FALSE

\* the candidate of a gate proposal carries no detail yet
GateCandidateBare(pending) ==
    Lower(Strip(CandidateOrEmpty(pending))) \in {<<>>, <<"j", "a">>, <<"y", "e", "s">>}

\* a proposal is pending: accept, gate detail, `new ...` or revision
PendingFlow(conv, m, ext) ==
    LET pending == conv.pending
        field == pending.field
        detail_value == IF ModeToUse(conv, m.body) = "story"
                        THEN _rewrite_with_model(m.body.rest, ext)
                        ELSE m.body.rest
        combined == <<"y", "e", "s", ":", " ">> \o detail_value
        new_value == IF ModeToUse(conv, m.new) = "story"
                     THEN _rewrite_with_model(m.new.rest, ext)
                     ELSE m.new.rest
        history == pending.history \o << [role |-> "user", content |-> m.text_raw] >>
        revised == _revise_with_history(history, m.text_raw, ext)
    IN  IF field = risicoafweging /\ GateCandidateBare(pending) /\ m.accept
        THEN Result(conv, <<"need_risk_assessment_detail">>)
        ELSE IF m.accept
        THEN CommitAndAdvance(conv, field, CandidateOrEmpty(pending), ext)
        ELSE IF field = risicoafweging /\ GateCandidateBare(pending)
        THEN Result(_set_pending_with_history(conv, field, m.text_raw, combined), <<"proposal">>)
        ELSE IF m.is_new
        THEN IF ModeToUse(conv, m.new) = "literal"
             THEN CommitAndAdvance(conv, field, m.new.rest, ext)
             ELSE Result(_set_pending_with_history(conv, field, m.new.rest, new_value), <<"proposal">>)
        ELSE Result([conv EXCEPT !.pending =
                        [field |-> field, candidate |-> revised,
                         history |-> history \o << [role |-> "assistant", content |-> revised] >>]],
                    <<"proposal">>)

\* no proposal is pending: the message answers the question at the cursor
AnswerFlow(conv, m, ext) ==
    LET idx == conv.index
        field == QField(idx)
        body_text == m.body.rest
        value == _rewrite_with_model(body_text, ext)
        no1 == [conv EXCEPT !.data[field] = <<"n", "o">>]
        no2 == [no1 EXCEPT !.index = _compute_next_index(no1, idx + 1)]
        lit == [conv EXCEPT !.data[field] = body_text, !.index = idx + 1]
    IN  IF idx >= NQuestions
        THEN Result(conv, <<"no_open_questions_with_jira", "FOLLOWUP_STEPS_TEXT">>)
        ELSE IF field = risicoafweging
        THEN IF m.body_yes
             THEN Result([conv EXCEPT !.data[field] = <<"y", "e", "s">>,
                                      !.pending = [field |-> field, candidate |-> <<"y", "e", "s">>,
                                                   history |-> <<>>]],
                         <<"risk_assessment_followup_question">>)
             ELSE IF m.body_no
             THEN Result(no2, NextQuestionSaid(no2, "Thank you",
                                <<"all_questions_answered_thank_you", "FOLLOWUP_STEPS_TEXT">>))
             ELSE Result(conv, <<"risk_assessment_yesno_prompt">>)
        ELSE IF ModeToUse(conv, m.body) = "story"
        THEN Result(_set_pending_with_history(conv, field, body_text, value), <<"proposal">>)
        ELSE Result(lit, NextQuestionSaid(lit, "Thank you",
                            <<"no_open_questions_with_jira", "FOLLOWUP_STEPS_TEXT">>))

\* the record is incomplete: a proposal is pending or a question is open
Incomplete(conv) == HasPending(conv) \/ conv.index < NQuestions

\* variant of RiskyAction that leaves the override set after the action ran
RiskyActionKeepingOverride(conv, action) ==
    IF Incomplete(conv) /\ ~conv.override_incomplete
    THEN Result([conv EXCEPT !.confirm_action = action], <<"warning_incomplete", action>>)
    ELSE IF action = "finalize"
    THEN Result(conv, <<"final_document">>)
    ELSE Export(conv)

\* `finalize` or `jira`: ask for confirmation of an incomplete record unless
\* the override is set (conv.pop("override_incomplete") only runs when the
\* record is incomplete), else run the action
RiskyAction(conv, action) ==
    IF Incomplete(conv) /\ ~conv.override_incomplete
    THEN Result([conv EXCEPT !.confirm_action = action], <<"warning_incomplete", action>>)
    ELSE LET c1 == IF Incomplete(conv) THEN [conv EXCEPT !.override_incomplete = FALSE] ELSE conv
         IN  IF action = "finalize"
             THEN Result(c1, <<"final_document">>)
             ELSE Export(c1)

\* variant of ModeCommand that falls back to story for an unknown choice
ModeCommandDefaulting(conv, m) ==
    IF m.choice = "None" THEN Result([conv EXCEPT !.mode = "story"], <<"usage_mode">>)
    ELSE Result([conv EXCEPT !.mode = m.choice], <<"input_mode_set", "next_step">>)

\* `mode <choice>`
ModeCommand(conv, m) ==
    IF m.choice = "None" THEN Result(conv, <<"usage_mode">>)
    ELSE Result([conv EXCEPT !.mode = m.choice], <<"input_mode_set", "next_step">>)

\* `edit <field> <value>`
EditCommand(conv, m, ext) ==
    LET key == m.edit.key
        nv_body == m.edit.value.rest
        value == _rewrite_with_model(nv_body, ext)
    IN  IF ~m.edit.complete THEN Result(conv, <<"usage_edit_example">>)
        ELSE IF key = 0 THEN Result(conv, <<"unknown_field">>)
        ELSE IF ModeToUse(conv, m.edit.value) = "story"
        THEN Result(_set_pending_with_history(conv, key, nv_body, value), <<"proposal_edit">>)
        ELSE Result([conv EXCEPT !.data[key] = nv_body], <<"changed_field">>)

\* variant of CancelCommand that keeps the record of the cancelled conversation
CancelCommandKeepingRecord(conv) ==
    Result([NoConv EXCEPT !.data = conv.data], <<"incident_canceled">>)

\* `cancel`: state.pop(key)
CancelCommand(conv) == Result(NoConv, <<"incident_canceled">>)

\* thread-level commands, then the proposal, then the answer; `cmd` is the
\* command the handler's `text` names
Commands(conv, m, cmd, ext) ==
    CASE cmd = "help" -> Result(conv, <<"HELP_TEXT">>)
      [] cmd = "finalize" -> RiskyAction(conv, "finalize")
      [] cmd = "jira" -> RiskyAction(conv, "jira")
      [] cmd = "status" -> Result(conv, <<"status", "next_step">>)
      [] cmd = "fields" -> Result(conv, <<"fields_list", "next_step">>)
      [] cmd = "show" -> Result(conv, <<"current_markdown", "next_step">>)
      [] cmd = "continue" -> Result(conv, <<"next_step">>)
      [] cmd = "mode" -> ModeCommand(conv, m)
      [] cmd = "showmode" -> Result(conv, <<"current_input_mode">>)
      [] cmd = "edit" -> EditCommand(conv, m, ext)
      [] cmd = "cancel" -> CancelCommand(conv)
      [] OTHER -> IF HasPending(conv) THEN PendingFlow(conv, m, ext)
                  ELSE AnswerFlow(conv, m, ext)

\* variant of Collecting that dispatches every message without looking at
\* confirm_action
CollectingWithoutGate(conv, m, ext) == Commands(conv, m, m.cmd, ext)

\* status "collecting": the risky-action confirmation comes first; on accept
\* the handler goes on with `text` set to the confirmed action
Collecting(conv, m, ext) ==
    IF conv.confirm_action \in {"finalize", "jira"}
    THEN IF m.accept
         THEN Commands([conv EXCEPT !.confirm_action = "None", !.override_incomplete = TRUE],
                       m, conv.confirm_action, ext)
         ELSE IF m.no
         THEN Result([conv EXCEPT !.confirm_action = "None"], <<"next_step">>)
         ELSE Result(conv, <<"proceed_or_cancel_instruction", "next_step">>)
    ELSE Commands(conv, m, m.cmd, ext)

\* len(MSG.PREFACE_STEPS)
PrefaceSteps == 6

\* variant of Preface whose last step is also left by an accept token
PrefaceAcceptStarts(conv, m) ==
    IF conv.preface_index < PrefaceSteps
    THEN IF m.accept \/ m.yes
         THEN Result([conv EXCEPT !.preface_index = conv.preface_index + 1], <<"preface_step_text">>)
         ELSE Result(conv, <<"preface_step_incomplete">>)
    ELSE IF m.start \/ m.accept
    THEN Result(CollectingConv, <<"WELCOME_TEXT", "first_question">>)
    ELSE Result(conv, <<"preface_step_text">>)

\* status "preface" or "welcome"
Preface(conv, m) ==
    IF conv.status = "welcome"
    THEN IF m.start
         THEN Result(CollectingConv, <<"WELCOME_TEXT", "first_question">>)
         ELSE Result(conv, <<"preface_step_text">>)
    ELSE IF conv.preface_index < PrefaceSteps
    THEN IF m.accept \/ m.yes
         THEN Result([conv EXCEPT !.preface_index = conv.preface_index + 1], <<"preface_step_text">>)
         ELSE Result(conv, <<"preface_step_incomplete">>)
    ELSE IF m.start
    THEN Result(CollectingConv, <<"WELCOME_TEXT", "first_question">>)
    ELSE Result(conv, <<"preface_step_text">>)

\* variant of NoConversation that never offers the pending picker
NoConversationWithoutPicker(has_thread, m, sess) ==
    IF has_thread /\ m.start
    THEN [conv |-> CollectingConv, said |-> <<"WELCOME_TEXT", "first_question">>, sess |-> sess,
          export |-> FALSE]
    ELSE IF ~has_thread
    THEN [conv |-> PrefaceConv, said |-> <<"PREFACE_TEXT", "preface_step_text">>, sess |-> sess,
          export |-> FALSE]
    ELSE [conv |-> NoConv, said |-> <<>>, sess |-> sess, export |-> FALSE]

\* variant of NoConversation that starts the questionnaire on any reply
NoConversationStartingOnReply(has_thread, m, sess) ==
    IF sess.pending_incident_keys # <<>>
    THEN [conv |-> NoConv, said |-> <<"pending_picker">>,
          sess |-> [sess EXCEPT !.state = "WAITING_FOR_INCIDENT"], export |-> FALSE]
    ELSE IF has_thread
    THEN [conv |-> CollectingConv, said |-> <<"WELCOME_TEXT", "first_question">>, sess |-> sess,
          export |-> FALSE]
    ELSE [conv |-> PrefaceConv, said |-> <<"PREFACE_TEXT", "preface_step_text">>, sess |-> sess,
          export |-> FALSE]

\* no conversation for the key
NoConversation(has_thread, m, sess) ==
    IF sess.pending_incident_keys # <<>>
    THEN [conv |-> NoConv, said |-> <<"pending_picker">>,
          sess |-> [sess EXCEPT !.state = "WAITING_FOR_INCIDENT"], export |-> FALSE]
    ELSE IF has_thread /\ m.start
    THEN [conv |-> CollectingConv, said |-> <<"WELCOME_TEXT", "first_question">>, sess |-> sess,
          export |-> FALSE]
    ELSE IF ~has_thread
    THEN [conv |-> PrefaceConv, said |-> <<"PREFACE_TEXT", "preface_step_text">>, sess |-> sess,
          export |-> FALSE]
    ELSE [conv |-> NoConv, said |-> <<>>, sess |-> sess, export |-> FALSE]

\* the handler for one direct-message event; `sess` is the sender's session
Handle(conv, has_thread, m, sess, ext) ==
    LET r == IF conv.status \in {"preface", "welcome"}
             THEN Preface(conv, m)
             ELSE Collecting(conv, m, ext)
    IN  IF conv.status = "none"
        THEN NoConversation(has_thread, m, sess)
        ELSE [conv |-> r.conv, said |-> r.said, sess |-> sess, export |-> r.export]

(***************************************************************************)
(* Events and the specification.                                           *)
(***************************************************************************)
Threads == 1..NThreads

\* the thread the single-conversation specifications drive
MainThread == 1

\* what the external call made while handling a message does: it raises, or
\* it returns a completion (a draft, or nothing)
ExternalOutcomes == {ExternalError, <<" ", "D", "r", "a", "f", "t", ".", " ">>, <<>>}

\* what the calls to the ticket system made while handling a message do
JiraOutcomes == {"issue_raises", "attach_raises", "ok"}

\* message texts users send
Texts == {<<"s", "t", "a", "r", "t">>, <<"y", "e", "s">>, <<"n", "o">>, <<" ", "f", "o", "o", " ">>, <<"m", "o", "d", "e", " ", "l", "i", "t", "e", "r", "a", "l">>, <<"l", "i", "t", "e", "r", "a", "l", " ", "n", "o">>}

\* messages around `new` while a proposal is pending
TextsNew ==
    {<<"s", "t", "a", "r", "t">>, <<"y", "e", "s">>, <<" ", "f", "o", "o", " ">>, <<"n", "e", "w", " ", "l", "i", "t", "e", "r", "a", "l", ":", " ", "k", "e", "e", "p", " ", "a", "s", " ", "i", "s">>, <<"n", "e", "w", " ", "f", "o", "o">>, <<"m", "o", "d", "e", " ", "l", "i", "t", "e", "r", "a", "l">>,
     <<"e", "d", "i", "t", " ", "2", ".", "2", " ", "l", "i", "t", "e", "r", "a", "l", " ", "x">>}

\* messages around edits of the binary-gate field
TextsGate == {<<"s", "t", "a", "r", "t">>, <<"y", "e", "s">>, <<" ", "f", "o", "o", " ">>, <<"e", "d", "i", "t", " ", "2", ".", "3", " ", "J", "A">>, <<"e", "d", "i", "t", " ", "2", ".", "3", " ", "s", "t", "o", "r", "y", ":">>, <<"m", "o", "d", "e", " ", "l", "i", "t", "e", "r", "a", "l">>}

\* messages around finalize and jira
TextsRisky == {<<"s", "t", "a", "r", "t">>, <<"y", "e", "s">>, <<"n", "o">>, <<"l", "i", "t", "e", "r", "a", "l">>, <<"f", "i", "n", "a", "l", "i", "z", "e">>, <<"j", "i", "r", "a">>}

\* messages around the confirmation of a risky action, and cancel
TextsConfirm ==
    {<<"s", "t", "a", "r", "t">>, <<"y", "e", "s">>, <<"n", "o">>, <<"f", "i", "n", "a", "l", "i", "z", "e">>, <<"j", "i", "r", "a">>, <<"c", "a", "n", "c", "e", "l">>, <<"m", "o", "d", "e", " ", "l", "i", "t", "e", "r", "a", "l">>}

\* messages that draft, revise and export
TextsFail == {<<"s", "t", "a", "r", "t">>, <<"y", "e", "s">>, <<" ", "f", "o", "o", " ">>, <<"n", "e", "w", " ", "f", "o", "o">>, <<"e", "d", "i", "t", " ", "2", ".", "3", " ", "J", "A">>, <<"j", "i", "r", "a">>}

\* every chat-completion call raises
DraftingFails == {ExternalError}

\* every export meets a call to the ticket system that raises
JiraFails == {"issue_raises", "attach_raises"}

\* `edit <field> x` for every field of the catalogue, the field named by its
\* key and by the number of its label
EditByKey == [f \in Fields |-> <<"e", "d", "i", "t", " ">> \o Catalog[f].key \o <<" ", "x">>]

EditByNumber == [f \in Fields |-> <<"e", "d", "i", "t", " ">> \o LabelNumber(Catalog[f].label) \o <<" ", "x">>]

EditTexts == {EditByKey[f] : f \in Fields} \cup {EditByNumber[f] : f \in Fields}

\* messages around edits by key and by number: of the gate field both ways,
\* of the first field by number
TextsEdit ==
    {<<"s", "t", "a", "r", "t">>, <<"y", "e", "s">>, <<"m", "o", "d", "e", " ", "l", "i", "t", "e", "r", "a", "l">>, EditByKey[risicoafweging], EditByNumber[risicoafweging],
     EditByNumber[QField(0)]}

\* commands with a user-input error, among messages that build up a
\* conversation
TextsError ==
    {<<"s", "t", "a", "r", "t">>, <<"y", "e", "s">>, <<"m", "o", "d", "e", " ", "l", "i", "t", "e", "r", "a", "l">>, <<"m", "o", "d", "e", " ", "f", "a", "s", "t">>, <<"e", "d", "i", "t", " ", "z", "z", "z", " ", "x">>, <<"e", "d", "i", "t", " ", "2", ".", "3">>}

\* one-shot prefixes on an answer, on a `new` value and on an `edit` value,
\* with the command that sets the persistent mode
TextsPrefix ==
    {<<"s", "t", "a", "r", "t">>, <<"y", "e", "s">>, <<"m", "o", "d", "e", " ", "l", "i", "t", "e", "r", "a", "l">>, <<"s", "t", "o", "r", "y", " ", "b", "a", "r">>, <<"n", "e", "w", " ", "s", "t", "o", "r", "y", ":", " ", "x">>, <<"e", "d", "i", "t", " ", "2", ".", "2", " ", "s", "t", "o", "r", "y", ":", " ", "x">>}

\* the prefix `literal:` with the answer on the next line of the message
LiteralOnNextLine == <<"l", "i", "t", "e", "r", "a", "l", ":">> \o <<"\n">> \o <<"f", "o", "o">>

\* messages that fill the record and export it
TextsRender == {<<"s", "t", "a", "r", "t">>, <<"y", "e", "s">>, <<"n", "o">>, LiteralOnNextLine, <<"j", "i", "r", "a">>}

AllTexts ==
    Texts \cup TextsNew \cup TextsGate \cup TextsRisky \cup TextsConfirm \cup TextsFail
    \cup EditTexts \cup TextsEdit \cup TextsError \cup TextsPrefix \cup TextsRender

\* MessageFacts of every message text, computed once
Message == [t \in AllTexts |-> MessageFacts(t)]

Event(t, has_thread, text, user) ==
    [kind |-> "message", thread |-> t, has_thread |-> has_thread, text |-> text, user |-> user,
     key |-> "None"]

NoEvent == [Event(0, FALSE, <<>>, "None") EXCEPT !.kind = "None"]

\* a link_shared event or a block action: its kind, the user it names and the
\* incident key it carries
LinkEvent(kind, user, key) ==
    [Event(0, FALSE, <<>>, user) EXCEPT !.kind = kind, !.key = key]

\* a helper function called on its own: its name, its argument and what it
\* returned (NotReturned before the call)
NotReturned == -1

Call(fn, arg) == [fn |-> fn, arg |-> arg, result |-> NotReturned]

NoCall == Call("None", <<>>)

\* the result of a function that returns None
ReturnedNone == 0

\* the result of a function whose value a variable of the model holds
Returned == 1

Init ==
    /\ state = [t \in Threads |-> NoConv]
    /\ SESSIONS = [u \in Reporters |-> NoSession]
    /\ roots = {}
    /\ event = NoEvent
    /\ said = <<>>
    /\ call = NoCall
    /\ jira = <<>>

\* position of a key in DUTCH_FIELD_LABELS
KeyPosition(key) ==
    CHOOSE p \in 1..Len(DUTCH_FIELD_LABELS) : DUTCH_FIELD_LABELS[p].key = key

\* the field of the catalogue at a position of DUTCH_FIELD_LABELS, 0 if the
\* catalogue does not have it
CatalogField ==
    [p \in 1..Len(DUTCH_FIELD_LABELS) |->
        IF \E f \in Fields : Catalog[f] = DUTCH_FIELD_LABELS[p]
        THEN CHOOSE f \in Fields : Catalog[f] = DUTCH_FIELD_LABELS[p]
        ELSE 0]

\* IncidentTemplate(**conv.get("data", {})).model_dump(): every field of the
\* template, None where the conversation holds no value
model_dump(data) ==
    [p \in 1..Len(DUTCH_FIELD_LABELS) |->
        IF CatalogField[p] # 0 THEN data[CatalogField[p]] ELSE None]

\* val(key): the trimmed value, "" for None; a key is named by its position
val(d, key) == IF d[key] = None THEN <<>> ELSE Strip(d[key])

\* the first field of the template
beschrijving_afwijking == KeyPosition(<<"b", "e", "s", "c", "h", "r", "i", "j", "v", "i", "n", "g", "_", "a", "f", "w", "i", "j", "k", "i", "n", "g">>)

\* the sections of the export: the custom field, the title line and, for
\* each field of the section, its sub-heading line
ExportSections ==
    << [field |-> "customfield_10061", title |-> <<"#", " ", "2", ".", " ", "M", "e", "a", "s", "u", "r", "e", "s">>,
        parts |-> << [key |-> KeyPosition(<<"m", "a", "a", "t", "r", "e", "g", "e", "l", "e", "n", "_", "b", "e", "h", "e", "e", "r", "s", "e", "n", "_", "c", "o", "r", "r", "i", "g", "e", "r", "e", "n">>),
                      heading |-> <<"#", "#", " ", "2", ".", "1", " ", "M", "e", "a", "s", "u", "r", "e", "s", " ", "t", "o", " ", "c", "o", "n", "t", "r", "o", "l", " ", "a", "n", "d", " ", "c", "o", "r", "r", "e", "c", "t", " ", "t", "h", "e", " ", "d", "e", "v", "i", "a", "t", "i", "o", "n">>],
                     [key |-> KeyPosition(<<"a", "a", "n", "p", "a", "s", "s", "e", "n", "_", "c", "o", "n", "s", "e", "q", "u", "e", "n", "t", "i", "e", "s">>), heading |-> <<"#", "#", " ", "2", ".", "2", " ", "A", "d", "j", "u", "s", "t", " ", "c", "o", "n", "s", "e", "q", "u", "e", "n", "c", "e", "s">>],
                     [key |-> KeyPosition(<<"r", "i", "s", "i", "c", "o", "a", "f", "w", "e", "g", "i", "n", "g">>),
                      heading |-> <<"#", "#", " ", "2", ".", "3", " ", "R", "i", "s", "k", " ", "a", "s", "s", "e", "s", "s", "m", "e", "n", "t", " ", "I", "f", " ", "t", "h", "e", " ", "d", "e", "v", "i", "a", "t", "i", "o", "n", " ", "i", "s", " ", "o", "f", " ", "s", "u", "c", "h", " ", "a", " ", "n", "a", "t", "u", "r", "e", ",", " ", "a", " ", "r", "i", "s", "k", " ", "a", "s", "s", "e", "s", "s", "m", "e", "n", "t", " ", "m", "u", "s", "t", " ", "b", "e", " ", "m", "a", "d", "e", ".", " ", "C", "o", "n", "t", "a", "c", "t", " ", "M", "a", "r", "k", ",", " ", "h", "o", "l", "d", "e", "r", " ", "o", "f", " ", "t", "h", "e", " ", "r", "i", "s", "k", " ", "i", "n", "v", "e", "n", "t", "o", "r", "y">>] >>],
       [field |-> "customfield_10062", title |-> <<"#", " ", "3", ".", " ", "A", "n", "a", "l", "y", "s", "i", "s", " ", "a", "n", "d", " ", "r", "e", "m", "o", "v", "i", "n", "g", " ", "c", "a", "u", "s", "e", "s">>,
        parts |-> << [key |-> KeyPosition(<<"o", "o", "r", "z", "a", "a", "k", "_", "o", "n", "t", "s", "t", "a", "a", "n">>), heading |-> <<"#", "#", " ", "3", ".", "1", " ", "C", "a", "u", "s", "e", " ", "o", "f", " ", "t", "h", "e", " ", "d", "e", "v", "i", "a", "t", "i", "o", "n">>],
                     [key |-> KeyPosition(<<"g", "e", "v", "o", "l", "g", "e", "n">>), heading |-> <<"#", "#", " ", "3", ".", "2", " ", "C", "o", "n", "s", "e", "q", "u", "e", "n", "c", "e", "s", " ", "o", "f", " ", "t", "h", "e", " ", "d", "e", "v", "i", "a", "t", "i", "o", "n">>],
                     [key |-> KeyPosition(<<"o", "o", "r", "z", "a", "a", "k", "_", "w", "e", "g", "n", "e", "m", "e", "n">>), heading |-> <<"#", "#", " ", "3", ".", "3", " ", "R", "e", "m", "o", "v", "e", " ", "c", "a", "u", "s", "e">>],
                     [key |-> KeyPosition(<<"e", "l", "d", "e", "r", "s", "_", "v", "o", "o", "r", "g", "e", "d", "a", "a", "n">>),
                      heading |-> <<"#", "#", " ", "3", ".", "4", " ", "C", "o", "u", "l", "d", " ", "t", "h", "e", " ", "d", "e", "v", "i", "a", "t", "i", "o", "n", " ", "h", "a", "v", "e", " ", "o", "c", "c", "u", "r", "r", "e", "d", " ", "e", "l", "s", "e", "w", "h", "e", "r", "e">>],
                     [key |-> KeyPosition(<<"a", "c", "t", "i", "e", "s", "_", "e", "l", "d", "e", "r", "s">>),
                      heading |-> <<"#", "#", " ", "3", ".", "5", " ", "A", "c", "t", "i", "o", "n", "s", " ", "o", "n", " ", "d", "e", "v", "i", "a", "t", "i", "o", "n", " ", "t", "h", "a", "t", " ", "o", "c", "c", "u", "r", "r", "e", "d", " ", "e", "l", "s", "e", "w", "h", "e", "r", "e">>] >>],
       [field |-> "customfield_10063",
        title |-> <<"#", " ", "4", ".", " ", "A", "s", "s", "e", "s", "s", "m", "e", "n", "t", " ", "o", "f", " ", "m", "e", "a", "s", "u", "r", "e", "s", " ", "t", "a", "k", "e", "n", " ", "T", "h", "i", "s", " ", "c", "h", "a", "p", "t", "e", "r", " ", "w", "i", "l", "l", " ", "b", "e", " ", "f", "i", "l", "l", "e", "d", " ", "o", "n", "c", "e", " ", "t", "h", "e", " ", "J", "I", "R", "A", " ", "a", "c", "t", "i", "o", "n", "s", " ", "a", "r", "e", " ", "c", "o", "m", "p", "l", "e", "t", "e", "d", ".">>,
        parts |-> << [key |-> KeyPosition(<<"d", "o", "e", "l", "t", "r", "e", "f", "f", "e", "n", "d", "h", "e", "i", "d">>),
                      heading |-> <<"#", "#", " ", "4", ".", "1", " ", "E", "f", "f", "e", "c", "t", "i", "v", "e", "n", "e", "s", "s", " ", "o", "f", " ", "t", "h", "e", " ", "m", "e", "a", "s", "u", "r", "e", "s", " ", "t", "a", "k", "e", "n">>],
                     [key |-> KeyPosition(<<"a", "c", "t", "u", "a", "l", "i", "s", "a", "t", "i", "e", "_", "r", "i", "s", "i", "c", "o">>),
                      heading |-> <<"#", "#", " ", "4", ".", "2", " ", "U", "p", "d", "a", "t", "e", " ", "o", "f", " ", "r", "i", "s", "k", " ", "i", "n", "v", "e", "n", "t", "o", "r", "y", " ", "b", "a", "s", "e", "d", " ", "o", "n", " ", "d", "e", "v", "i", "a", "t", "i", "o", "n", " ", "(", "i", "f", " ", "a", "p", "p", "l", "i", "c", "a", "b", "l", "e", ")">>],
                     [key |-> KeyPosition(<<"a", "a", "n", "p", "a", "s", "s", "i", "n", "g", "_", "k", "w", "a", "l", "i", "t", "e", "i", "t", "s", "s", "y", "s", "t", "e", "e", "m">>),
                      heading |-> <<"#", "#", " ", "4", ".", "3", " ", "A", "d", "j", "u", "s", "t", "m", "e", "n", "t", " ", "t", "o", " ", "q", "u", "a", "l", "i", "t", "y", " ", "s", "y", "s", "t", "e", "m", " ", "(", "i", "f", " ", "a", "p", "p", "l", "i", "c", "a", "b", "l", "e", ")">>] >>] >>

\* variant of SectionLines that writes the sub-heading of every field
SectionLinesWithAllHeadings(d, section) ==
    IF \A j \in 1..Len(section.parts) : val(d, section.parts[j].key) = <<>> THEN <<>>
    ELSE <<section.title>> \o
         [j \in 1..(2 * Len(section.parts)) |->
             IF j % 2 = 1 THEN section.parts[(j + 1) \div 2].heading
             ELSE val(d, section.parts[j \div 2].key)]

\* the lines of one section: nothing if every field of it is blank, else the
\* title and, for each field that is not blank, its sub-heading and its value
SectionLines(d, section) ==
    LET filled == SelectSeq(section.parts, LAMBDA part : val(d, part.key) # <<>>)
    IN  IF filled = <<>> THEN <<>>
        ELSE <<section.title>> \o
             [j \in 1..(2 * Len(filled)) |->
                 IF j % 2 = 1 THEN filled[(j + 1) \div 2].heading
                 ELSE val(d, filled[j \div 2].key)]

\* the lines of the description: section 1 only
DescriptionLines(d) ==
    IF val(d, beschrijving_afwijking) # <<>>
    THEN <<<<"#", " ", "1", ".", " ", "B", "e", "s", "c", "h", "r", "i", "j", "v", "i", "n", "g", " ", "a", "f", "w", "i", "j", "k", "i", "n", "g">>, val(d, beschrijving_afwijking)>>
    ELSE <<>>

\* the document: for each entry the heading line, the line of the value if
\* the entry is a field (0 for a chapter title, which has none), and an empty
\* line
RenderLayout ==
    << [heading |-> <<"#", " ", "1", ".", " ", "D", "e", "s", "c", "r", "i", "p", "t", "i", "o", "n", " ", "o", "f", " ", "d", "e", "v", "i", "a", "t", "i", "o", "n">>, key |-> KeyPosition(<<"b", "e", "s", "c", "h", "r", "i", "j", "v", "i", "n", "g", "_", "a", "f", "w", "i", "j", "k", "i", "n", "g">>)],
       [heading |-> <<"#", " ", "2", ".", " ", "M", "e", "a", "s", "u", "r", "e", "s">>, key |-> 0],
       [heading |-> <<"#", "#", " ", "2", ".", "1", " ", "M", "e", "a", "s", "u", "r", "e", "s", " ", "t", "o", " ", "c", "o", "n", "t", "r", "o", "l", " ", "a", "n", "d", " ", "c", "o", "r", "r", "e", "c", "t", " ", "t", "h", "e", " ", "d", "e", "v", "i", "a", "t", "i", "o", "n">>,
        key |-> KeyPosition(<<"m", "a", "a", "t", "r", "e", "g", "e", "l", "e", "n", "_", "b", "e", "h", "e", "e", "r", "s", "e", "n", "_", "c", "o", "r", "r", "i", "g", "e", "r", "e", "n">>)],
       [heading |-> <<"#", "#", " ", "2", ".", "2", " ", "A", "d", "j", "u", "s", "t", " ", "c", "o", "n", "s", "e", "q", "u", "e", "n", "c", "e", "s">>, key |-> KeyPosition(<<"a", "a", "n", "p", "a", "s", "s", "e", "n", "_", "c", "o", "n", "s", "e", "q", "u", "e", "n", "t", "i", "e", "s">>)],
       [heading |-> <<"#", "#", " ", "2", ".", "3", " ", "R", "i", "s", "k", " ", "a", "s", "s", "e", "s", "s", "m", "e", "n", "t", " ", "I", "f", " ", "t", "h", "e", " ", "d", "e", "v", "i", "a", "t", "i", "o", "n", " ", "i", "s", " ", "o", "f", " ", "s", "u", "c", "h", " ", "a", " ", "n", "a", "t", "u", "r", "e", ",", " ", "a", " ", "r", "i", "s", "k", " ", "a", "s", "s", "e", "s", "s", "m", "e", "n", "t", " ", "m", "u", "s", "t", " ", "b", "e", " ", "m", "a", "d", "e", ".", " ", "C", "o", "n", "t", "a", "c", "t", " ", "M", "a", "r", "k", ",", " ", "h", "o", "l", "d", "e", "r", " ", "o", "f", " ", "t", "h", "e", " ", "r", "i", "s", "k", " ", "i", "n", "v", "e", "n", "t", "o", "r", "y">>,
        key |-> KeyPosition(<<"r", "i", "s", "i", "c", "o", "a", "f", "w", "e", "g", "i", "n", "g">>)],
       [heading |-> <<"#", " ", "3", ".", " ", "A", "n", "a", "l", "y", "s", "i", "s", " ", "a", "n", "d", " ", "r", "e", "m", "o", "v", "i", "n", "g", " ", "c", "a", "u", "s", "e", "s">>, key |-> 0],
       [heading |-> <<"#", "#", " ", "3", ".", "1", " ", "C", "a", "u", "s", "e", " ", "o", "f", " ", "t", "h", "e", " ", "d", "e", "v", "i", "a", "t", "i", "o", "n">>, key |-> KeyPosition(<<"o", "o", "r", "z", "a", "a", "k", "_", "o", "n", "t", "s", "t", "a", "a", "n">>)],
       [heading |-> <<"#", "#", " ", "3", ".", "2", " ", "C", "o", "n", "s", "e", "q", "u", "e", "n", "c", "e", "s", " ", "o", "f", " ", "t", "h", "e", " ", "d", "e", "v", "i", "a", "t", "i", "o", "n">>, key |-> KeyPosition(<<"g", "e", "v", "o", "l", "g", "e", "n">>)],
       [heading |-> <<"#", "#", " ", "3", ".", "3", " ", "R", "e", "m", "o", "v", "e", " ", "c", "a", "u", "s", "e">>, key |-> KeyPosition(<<"o", "o", "r", "z", "a", "a", "k", "_", "w", "e", "g", "n", "e", "m", "e", "n">>)],
       [heading |-> <<"#", "#", " ", "3", ".", "4", " ", "C", "o", "u", "l", "d", " ", "t", "h", "e", " ", "d", "e", "v", "i", "a", "t", "i", "o", "n", " ", "h", "a", "v", "e", " ", "o", "c", "c", "u", "r", "r", "e", "d", " ", "e", "l", "s", "e", "w", "h", "e", "r", "e">>,
        key |-> KeyPosition(<<"e", "l", "d", "e", "r", "s", "_", "v", "o", "o", "r", "g", "e", "d", "a", "a", "n">>)],
       [heading |-> <<"#", "#", " ", "3", ".", "5", " ", "A", "c", "t", "i", "o", "n", "s", " ", "o", "n", " ", "d", "e", "v", "i", "a", "t", "i", "o", "n", " ", "t", "h", "a", "t", " ", "o", "c", "c", "u", "r", "r", "e", "d", " ", "e", "l", "s", "e", "w", "h", "e", "r", "e">>,
        key |-> KeyPosition(<<"a", "c", "t", "i", "e", "s", "_", "e", "l", "d", "e", "r", "s">>)],
       [heading |-> <<"#", " ", "4", ".", " ", "A", "s", "s", "e", "s", "s", "m", "e", "n", "t", " ", "o", "f", " ", "m", "e", "a", "s", "u", "r", "e", "s", " ", "t", "a", "k", "e", "n", " ", "T", "h", "i", "s", " ", "c", "h", "a", "p", "t", "e", "r", " ", "w", "i", "l", "l", " ", "b", "e", " ", "f", "i", "l", "l", "e", "d", " ", "o", "n", "c", "e", " ", "t", "h", "e", " ", "J", "I", "R", "A", " ", "a", "c", "t", "i", "o", "n", "s", " ", "a", "r", "e", " ", "c", "o", "m", "p", "l", "e", "t", "e", "d", ".">>,
        key |-> 0],
       [heading |-> <<"#", "#", " ", "4", ".", "1", " ", "E", "f", "f", "e", "c", "t", "i", "v", "e", "n", "e", "s", "s", " ", "o", "f", " ", "t", "h", "e", " ", "m", "e", "a", "s", "u", "r", "e", "s", " ", "t", "a", "k", "e", "n">>, key |-> KeyPosition(<<"d", "o", "e", "l", "t", "r", "e", "f", "f", "e", "n", "d", "h", "e", "i", "d">>)],
       [heading |-> <<"#", "#", " ", "4", ".", "2", " ", "U", "p", "d", "a", "t", "e", " ", "o", "f", " ", "r", "i", "s", "k", " ", "i", "n", "v", "e", "n", "t", "o", "r", "y", " ", "b", "a", "s", "e", "d", " ", "o", "n", " ", "d", "e", "v", "i", "a", "t", "i", "o", "n", " ", "(", "i", "f", " ", "a", "p", "p", "l", "i", "c", "a", "b", "l", "e", ")">>,
        key |-> KeyPosition(<<"a", "c", "t", "u", "a", "l", "i", "s", "a", "t", "i", "e", "_", "r", "i", "s", "i", "c", "o">>)],
       [heading |-> <<"#", "#", " ", "4", ".", "3", " ", "A", "d", "j", "u", "s", "t", "m", "e", "n", "t", " ", "t", "o", " ", "q", "u", "a", "l", "i", "t", "y", " ", "s", "y", "s", "t", "e", "m", " ", "(", "i", "f", " ", "a", "p", "p", "l", "i", "c", "a", "b", "l", "e", ")">>,
        key |-> KeyPosition(<<"a", "a", "n", "p", "a", "s", "s", "i", "n", "g", "_", "k", "w", "a", "l", "i", "t", "e", "i", "t", "s", "s", "y", "s", "t", "e", "e", "m">>)],
       [heading |-> <<"#", " ", "5", ".", " ", "L", "e", "s", "s", "o", "n", "s", " ", "l", "e", "a", "r", "n", "e", "d">>, key |-> KeyPosition(<<"l", "e", "e", "r", "p", "u", "n", "t", "e", "n">>)] >>

\* variant of EntryLines that leaves out a field without value
EntryLinesIfSet(d, entry) ==
    IF entry.key = 0 THEN <<entry.heading, <<>>>>
    ELSE IF val(d, entry.key) = <<>> THEN <<>>
    ELSE <<entry.heading, val(d, entry.key), <<>>>>

\* the lines of one entry of the document
EntryLines(d, entry) ==
    IF entry.key = 0 THEN <<entry.heading, <<>>>> ELSE <<entry.heading, val(d, entry.key), <<>>>>

\* the lines of the entries from position i on
RECURSIVE RenderFrom(_, _)
RenderFrom(d, i) ==
    IF i > Len(RenderLayout) THEN <<>> ELSE EntryLines(d, RenderLayout[i]) \o RenderFrom(d, i + 1)

\* the document, by its lines (joined by line breaks in the code); the last
\* heading is for a key the template does not have
render_markdown(d) ==
    RenderFrom(d, 1) \o <<<<"#", " ", "6", ".", " ", "R", "e", "l", "a", "t", "i", "o", "n", " ", "t", "o", " ", "I", "S", "O", " ", "2", "7", "0", "0", "1", " ", "A", "n", "n", "e", "x", " ", "A", " ", "c", "o", "n", "t", "r", "o", "l", "s">>, <<>>>>

\* the number of characters `#` a line starts with
RECURSIVE Hashes(_)
Hashes(line) == IF line # <<>> /\ line[1] = "#" THEN 1 + Hashes(Tail(line)) ELSE 0

\* one line as a node of a Jira document: a heading for one to six `#`
\* followed by a space, else a paragraph
AdfNode(line) ==
    LET i == Hashes(line)
    IN  IF Strip(line) = <<>> THEN [type |-> "paragraph", level |-> 0, text |-> <<>>]
        ELSE IF i > 0 /\ i <= 6 /\ i < Len(line) /\ line[i + 1] = " "
        THEN [type |-> "heading", level |-> i,
              text |-> LStripChars(SubSeq(line, i + 2, Len(line)), Whitespace)]
        ELSE [type |-> "paragraph", level |-> 0, text |-> line]

\* a text, given by its lines, as a Jira document
_to_adf(lines) ==
    IF lines = <<>> THEN << [type |-> "paragraph", level |-> 0, text |-> <<>>] >>
    ELSE [i \in 1..Len(lines) |-> AdfNode(lines[i])]

\* the custom fields of the export: one for each section with lines
extra_fields(d) ==
    LET present == {i \in 1..Len(ExportSections) : SectionLines(d, ExportSections[i]) # <<>>}
    IN  [name \in {ExportSections[i].field : i \in present} |->
            _to_adf(SectionLines(d,
                ExportSections[CHOOSE i \in present : ExportSections[i].field = name]))]

\* the fields of an update: the description if it has lines, and the custom fields
update_fields(d) ==
    LET extra == extra_fields(d)
        names == DOMAIN extra \cup (IF DescriptionLines(d) # <<>> THEN {"description"} ELSE {})
    IN  [name \in names |->
            IF name = "description" THEN _to_adf(DescriptionLines(d)) ELSE extra[name]]

\* the key a created issue gets from the ticket system
CreatedKey == "K0"

\* variant of IssueCall that creates an issue when there is nothing to update
IssueCallCreatingWhenEmpty(d, linked_key) ==
    IF linked_key # "None" /\ DOMAIN update_fields(d) # {}
    THEN << [op |-> "update_issue", key |-> linked_key, fields |-> update_fields(d)] >>
    ELSE << [op |-> "create_issue", key |-> "None", description |-> DescriptionLines(d),
             fields |-> extra_fields(d)] >>

\* the call of the JiraClient for the issue: update_issue for a linked issue
\* if there is a field to write, create_issue without a linked issue
IssueCall(d, linked_key) ==
    IF linked_key # "None"
    THEN IF DOMAIN update_fields(d) # {}
         THEN << [op |-> "update_issue", key |-> linked_key, fields |-> update_fields(d)] >>
         ELSE <<>>
    ELSE << [op |-> "create_issue", key |-> "None", description |-> DescriptionLines(d),
             fields |-> extra_fields(d)] >>

\* the calls of the JiraClient made by the export: the call for the issue,
\* then attach_markdown unless that call raised
JiraCalls(issue, md, linked_key, jc) ==
    IF jc = "issue_raises" /\ issue # <<>> THEN issue
    ELSE issue \o << [op |-> "attach_markdown",
                      key |-> IF linked_key # "None" THEN linked_key ELSE CreatedKey,
                      md |-> md] >>

\* the export to the ticket system, as the user sees it.  `linked_key` is the
\* issue linked in the sender's session, `jc` what the JiraClient calls do: the
\* call that creates or updates the issue raises, or the issue is written and
\* the upload of the document raises, which the handler passes over, or both
\* succeed
_post_to_jira(calls, linked_key) ==
    IF calls[Len(calls)].op # "attach_markdown" THEN <<"could_not_create_jira">>
    ELSE IF linked_key # "None" THEN <<"jira_updated">>
    ELSE <<"jira_created">>

\* variant of handle_message_events whose store is keyed by the channel alone:
\* every thread of the channel holds the conversation the handler writes
handle_message_events_by_channel(t, has_thread, text, user, ext, jcs) ==
    LET ev == Event(t, has_thread, text, user)
        sessions == _set_session_dm(SESSIONS, user, DmChannel)
    IN  /\ has_thread <=> t \in roots
        /\ \E r \in {Handle(state[t], has_thread, Message[text], sessions[user], ext)} :
            /\ Len(r.conv.pending.history) <= MaxHistory
            /\ state' = [u \in Threads |-> IF u \in roots \cup {t} THEN r.conv ELSE state[u]]
            /\ SESSIONS' = [sessions EXCEPT ![user] = r.sess]
            /\ roots' = roots \cup {t}
            /\ event' = ev
            /\ UNCHANGED call
            /\ IF r.export
               THEN LET issue == IssueCall(model_dump(r.conv.data), r.sess.linked_issue_key)
                        md == render_markdown(model_dump(r.conv.data))
                    IN  \E jc \in jcs :
                            /\ jira' = JiraCalls(issue, md, r.sess.linked_issue_key, jc)
                            /\ said' = _post_to_jira(jira', r.sess.linked_issue_key)
               ELSE said' = r.said /\ jira' = <<>>

\* one direct message is handled to completion.  A message without thread_ts
\* is the root of a new thread; a message with thread_ts replies in a thread
\* whose root exists.  `jcs` is what the ticket system may do if it is called.
handle_message_events(t, has_thread, text, user, ext, jcs) ==
    LET ev == Event(t, has_thread, text, user)
        sessions == _set_session_dm(SESSIONS, user, DmChannel)
    IN  /\ has_thread <=> t \in roots
        /\ \E r \in {Handle(state[t], has_thread, Message[text], sessions[user], ext)} :
            /\ Len(r.conv.pending.history) <= MaxHistory
            /\ state' = [state EXCEPT ![t] = r.conv]
            /\ SESSIONS' = [sessions EXCEPT ![user] = r.sess]
            /\ roots' = roots \cup {t}
            /\ event' = ev
            /\ UNCHANGED call
            /\ IF r.export
               THEN LET issue == IssueCall(model_dump(r.conv.data), r.sess.linked_issue_key)
                        md == render_markdown(model_dump(r.conv.data))
                    IN  \E jc \in jcs :
                            /\ jira' = JiraCalls(issue, md, r.sess.linked_issue_key, jc)
                            /\ said' = _post_to_jira(jira', r.sess.linked_issue_key)
               ELSE said' = r.said /\ jira' = <<>>

\* a user sends one of `texts` in the main thread; the drafting service does
\* one of `llms` and the ticket system one of `jcs`
StepWith(texts, llms, jcs) ==
    \E text \in texts, has_thread \in BOOLEAN, user \in Users, ext \in llms :
        handle_message_events(MainThread, has_thread, text, user, ext, jcs)

Step(texts) == StepWith(texts, ExternalOutcomes, JiraOutcomes)

Next == Step(Texts)

Spec == Init /\ [][Next]_vars

NextNew == Step(TextsNew)

SpecNew == Init /\ [][NextNew]_vars

NextGate == Step(TextsGate)

SpecGate == Init /\ [][NextGate]_vars

NextRisky == Step(TextsRisky)

SpecRisky == Init /\ [][NextRisky]_vars

NextConfirm == Step(TextsConfirm)

SpecConfirm == Init /\ [][NextConfirm]_vars

NextPrefix == Step(TextsPrefix)

SpecPrefix == Init /\ [][NextPrefix]_vars

NextRender == StepWith(TextsRender, {<<" ", "D", "r", "a", "f", "t", ".", " ">>}, {"ok"})

SpecRender == Init /\ [][NextRender]_vars

NextError == Step(TextsError)

SpecError == Init /\ [][NextError]_vars

NextEdit == Step(TextsEdit)

SpecEdit == Init /\ [][NextEdit]_vars

\* the external services are down
NextFail == StepWith(TextsFail, DraftingFails, JiraFails)

SpecFail == Init /\ [][NextFail]_vars

(***************************************************************************)
(* _resolve_field_key called on its own, on a token that is a key, a       *)
(* label, a number or a piece of one of them, or that names nothing.       *)
(***************************************************************************)
\* all pieces of s of at most n characters
Pieces(s, n) ==
    {SubSeq(s, i, j) : i \in 1..Len(s), j \in 1..Len(s)} \ {x \in {SubSeq(s, i, j) : i \in 1..Len(s), j \in 1..Len(s)} : Len(x) > n}

Tokens ==
    {<<>>, <<" ">>, <<"z", "z", "z">>, <<"2", ".", "4">>, <<"9">>, <<" ", "2", ".", "3", " ">>, <<"R", "I", "S", "I", "C", "O", "A", "F", "W", "E", "G", "I", "N", "G">>, <<"R", "i", "s", "k">>, <<" ", "o", "o", "r", "z", "a", "a", "k", "_", "o", "n", "t", "s", "t", "a", "a", "n">>}
    \cup {DUTCH_FIELD_LABELS[f].key : f \in 1..Len(DUTCH_FIELD_LABELS)}
    \cup {LabelNumber(DUTCH_FIELD_LABELS[f].label) : f \in 1..Len(DUTCH_FIELD_LABELS)}
    \cup UNION {Pieces(Catalog[f].key, MaxPiece) \cup Pieces(Catalog[f].label, MaxPiece) : f \in Fields}

InitResolve ==
    /\ state = [t \in Threads |-> NoConv]
    /\ SESSIONS = [u \in Reporters |-> NoSession]
    /\ roots = {}
    /\ event = NoEvent
    /\ said = <<>>
    /\ call \in {Call("_resolve_field_key", t) : t \in Tokens}
    /\ jira = <<>>

resolve ==
    /\ call.fn = "_resolve_field_key"
    /\ call.result = NotReturned
    /\ call' = [call EXCEPT !.result = _resolve_field_key(call.arg)]
    /\ UNCHANGED <<state, SESSIONS, roots, event, said, jira>>

NextResolve == resolve

(***************************************************************************)
(* link_shared events and block actions.                                   *)
(***************************************************************************)
\* what the calls to Slack made by a handler do
SlackOutcomes == {"ok", "raises"}

\* the keys found in the links shared with the users who write to the bot
SharedKeys == {"K1", "K2"}

\* the channel for direct messages to the user: the one the session holds,
\* else the one conversations_open returns, "None" if the call raises
_ensure_dm_channel(sessions, user_id, slack) ==
    LET created == _get_or_create_session(sessions, user_id)
    IN  IF created[user_id].dm_channel # "None"
        THEN [sessions |-> created, dm |-> created[user_id].dm_channel]
        ELSE IF slack = "ok"
        THEN [sessions |-> _set_session_dm(created, user_id, DmChannel), dm |-> DmChannel]
        ELSE [sessions |-> created, dm |-> "None"]

\* the thread of the next message the bot posts outside a thread, 0 if the
\* threads are used up
NextRoot == IF Threads \ roots = {} THEN 0 ELSE CHOOSE t \in Threads \ roots : \A u \in Threads \ roots : t <= u

\* the flow begun at the gate that only `start` passes
_start_flow_at_gate(states, thread_ts) ==
    [states EXCEPT ![thread_ts] = [PrefaceConv EXCEPT !.preface_index = PrefaceSteps]]

\* the flow begins with the preface text and its step 1
_start_preface_flow(states, thread_ts) == [states EXCEPT ![thread_ts] = PrefaceConv]

\* the key is linked, and if the user can be reached the bot posts the root
\* of a new thread and starts the preface there; the event then carries the
\* root of that thread
LinkAndStart(ev, slack) ==
    LET linked == _link_issue_to_session(SESSIONS, ev.user, ev.key)
        dm == _ensure_dm_channel(linked, ev.user, slack)
    IN  /\ slack = "ok" => NextRoot # 0
        /\ SESSIONS' = dm.sessions
        /\ jira' = <<>>
        /\ UNCHANGED call
        /\ IF dm.dm # "None" /\ slack = "ok"
           THEN /\ event' = [ev EXCEPT !.thread = NextRoot]
                /\ state' = _start_preface_flow(state, NextRoot)
                /\ roots' = roots \cup {NextRoot}
                /\ said' = <<"linked", "PREFACE_TEXT", "preface_step_text">>
           ELSE /\ event' = ev
                /\ UNCHANGED <<state, roots>>
                /\ said' = <<>>

\* a link with an incident key is shared and `user` is found to be the reporter
handle_link_shared(user, key, slack) ==
    LET ev == LinkEvent("link_shared", user, key)
        sessions == _get_or_create_session(SESSIONS, user)
        dm == _ensure_dm_channel(sessions, user, slack)
        pending == sessions[user].pending_incident_keys
    IN  IF sessions[user].state = "WAITING_FOR_INCIDENT"
        THEN LinkAndStart(ev, slack)
        ELSE /\ event' = ev
             /\ jira' = <<>>
             /\ UNCHANGED <<state, roots, call>>
             /\ IF dm.dm # "None"
                THEN /\ SESSIONS' = [dm.sessions EXCEPT
                            ![user].state = "WAITING_FOR_INCIDENT",
                            ![user].pending_incident_keys =
                                IF \E i \in 1..Len(pending) : pending[i] = key
                                THEN pending ELSE Append(pending, key)]
                     /\ said' = IF slack = "ok" THEN <<"link_incident_confirm">> ELSE <<>>
                ELSE /\ SESSIONS' = dm.sessions
                     /\ said' = <<>>

\* the user presses the button that confirms the link
action_link_incident_confirm(user, key, slack) ==
    LinkAndStart(LinkEvent("link_incident_confirm", user, key), slack)

\* the user presses the button that declines the link
action_link_incident_decline(user, slack) ==
    LET sessions == [_get_or_create_session(SESSIONS, user) EXCEPT
                        ![user].state = "WAITING_FOR_INCIDENT"]
        dm == _ensure_dm_channel(sessions, user, slack)
    IN  /\ SESSIONS' = dm.sessions
        /\ event' = LinkEvent("link_incident_decline", user, "None")
        /\ said' = IF dm.dm # "None" /\ slack = "ok" THEN <<"pending_picker">> ELSE <<>>
        /\ jira' = <<>>
        /\ UNCHANGED <<state, roots, call>>

\* the user selects a key in a picker of pending incidents
action_pick_pending_incident(user, key, slack) ==
    LinkAndStart(LinkEvent("pick_pending_incident", user, key), slack)

\* messages that walk through the preface, answer, and export
TextsSession == {<<"s", "t", "a", "r", "t">>, <<"y", "e", "s">>, <<"j", "i", "r", "a">>}

NextSession ==
    \/ \E user \in Users, key \in SharedKeys, slack \in SlackOutcomes :
            handle_link_shared(user, key, slack)
    \/ \E user \in Users, key \in SharedKeys, slack \in SlackOutcomes :
            action_link_incident_confirm(user, key, slack)
    \/ \E user \in Users, slack \in SlackOutcomes :
            action_link_incident_decline(user, slack)
    \/ \E user \in Users, key \in SharedKeys, slack \in SlackOutcomes :
            action_pick_pending_incident(user, key, slack)
    \/ StepWith(TextsSession, {<<" ", "D", "r", "a", "f", "t", ".", " ">>}, JiraOutcomes)

SpecSession == Init /\ [][NextSession]_vars

\* the lists of distinct incident keys
RECURSIVE KeyLists(_)
KeyLists(keys) ==
    {<<>>} \cup UNION {{<<k>> \o l : l \in KeyLists(keys \ {k})} : k \in keys}

\* the sessions the handlers can leave for a user whose channel is known:
\* idle as created, waiting, or active with a linked key
KnownSessions ==
    {[IdleSession EXCEPT !.dm_channel = DmChannel]}
    \cup {[state |-> st, linked_issue_key |-> k, pending_incident_keys |-> p,
           dm_channel |-> DmChannel] :
            st \in {"WAITING_FOR_INCIDENT"}, k \in Keys \cup {"None"}, p \in KeyLists(Keys)}
    \cup {[state |-> st, linked_issue_key |-> k, pending_incident_keys |-> p,
           dm_channel |-> DmChannel] :
            st \in {"ACTIVE"}, k \in Keys, p \in KeyLists(Keys)}

\* a few of them, for the users a call is not about
SampleSessions ==
    {NoSession,
     [state |-> "WAITING_FOR_INCIDENT", linked_issue_key |-> "None",
      pending_incident_keys |-> <<"K2", "K1">>, dm_channel |-> DmChannel],
     [state |-> "ACTIVE", linked_issue_key |-> "K1",
      pending_incident_keys |-> <<"K1", "K3">>, dm_channel |-> "None"]}

\* the session maps in which one user has any session and the others a sample
SessionMaps ==
    UNION {{[u \in Reporters |-> IF u = user THEN own ELSE other] :
                own \in KnownSessions \cup {NoSession}, other \in SampleSessions} :
           user \in Reporters}

InitLink ==
    /\ state = [t \in Threads |-> NoConv]
    /\ SESSIONS \in SessionMaps
    /\ roots = {}
    /\ event = NoEvent
    /\ said = <<>>
    /\ call \in {Call("_link_issue_to_session",
                       [SESSIONS |-> SESSIONS, user_id |-> u, issue_key |-> k]) :
                    u \in Reporters, k \in Keys}
    /\ jira = <<>>

link ==
    /\ call.fn = "_link_issue_to_session"
    /\ call.result = NotReturned
    /\ SESSIONS' = _link_issue_to_session(SESSIONS, call.arg.user_id, call.arg.issue_key)
    /\ call' = [call EXCEPT !.result = ReturnedNone]
    /\ UNCHANGED <<state, roots, event, said, jira>>

NextLink == link

SpecLink == InitLink /\ [][NextLink]_vars

\* the values a field of a record may hold
FieldValues == {None, <<" ">>, <<" ", "x", " ">>}

\* the records of the template with values in at most MaxFilled fields
Records ==
    {d \in [1..Len(DUTCH_FIELD_LABELS) -> FieldValues] :
        Cardinality({p \in 1..Len(DUTCH_FIELD_LABELS) : d[p] # None}) <= MaxFilled}

InitPost ==
    /\ state = [t \in Threads |-> NoConv]
    /\ SESSIONS = [u \in Reporters |-> NoSession]
    /\ roots = {}
    /\ event = NoEvent
    /\ said = <<>>
    /\ call \in {Call("create_jira_post", d) : d \in Records}
    /\ jira = <<>>

\* the payload of the export is built from a record
create_jira_post ==
    /\ call.fn = "create_jira_post"
    /\ call.result = NotReturned
    /\ jira' = << [op |-> "create_jira_post", description |-> DescriptionLines(call.arg),
                   fields |-> extra_fields(call.arg)] >>
    /\ call' = [call EXCEPT !.result = Returned]
    /\ UNCHANGED <<state, SESSIONS, roots, event, said>>

NextPost == create_jira_post

SpecPost == InitPost /\ [][NextPost]_vars

\* a session is looked up `age` days after it was stored
InitAge ==
    /\ state = [t \in Threads |-> NoConv]
    /\ SESSIONS \in SessionMaps
    /\ roots = {}
    /\ event = NoEvent
    /\ said = <<>>
    /\ call \in {Call("_get_or_create_session", [SESSIONS |-> SESSIONS, user_id |-> u, age |-> a]) :
                    u \in Reporters, a \in 0..MaxDays}
    /\ jira = <<>>

get_or_create ==
    /\ call.fn = "_get_or_create_session"
    /\ call.result = NotReturned
    /\ SESSIONS' = _get_or_create_session(SESSIONS, call.arg.user_id)
    /\ call' = [call EXCEPT !.result = Returned]
    /\ UNCHANGED <<state, roots, event, said, jira>>

NextAge == get_or_create

SpecAge == InitAge /\ [][NextAge]_vars

SpecResolve == InitResolve /\ [][NextResolve]_vars

(***************************************************************************)
(* Properties.  A step is the handling of one message: Before and After    *)
(* are the conversation of the main thread around it, Sent the text of the *)
(* message.                                                                *)
(***************************************************************************)
Before == state[MainThread]

After == state'[MainThread]

Sent == event'.text

\* the message as the handler reads it: trimmed, and lower-cased
SentRaw == Message[event'.text].text_raw

SentLower == Message[event'.text].text

\* the named command the message is, "None" if it is none
SentCommand == Message[event'.text].cmd

\* the message, the text after `new` and the value of `edit`, each split into
\* its one-shot mode prefix and the rest
SentBody == Message[event'.text].body

\* the message less its one-shot prefix, trimmed and lower-cased
BodyLower == [t \in AllTexts |-> Lower(Strip(Message[t].body.rest))]

SentBodyLower == BodyLower[event'.text]

SentNew == Message[event'.text].new

SentEdit == Message[event'.text].edit

\* a record value is unset or blank
Blank(v) == v = None \/ \A i \in 1..Len(v) : v[i] = " "

\* the 0-based positions of `questions` whose record value is unset or blank
Unanswered(c) == {i \in 0..(NQuestions - 1) : Blank(c.data[QField(i)])}

Min(S) == CHOOSE x \in S : \A y \in S : x <= y

\* the smallest unanswered position, len(questions) if there is none
FirstUnanswered(c) == Min(Unanswered(c) \cup {NQuestions})

\* the smallest unanswered position at or after k
NextUnanswered(c, k) == Min({i \in Unanswered(c) : i >= k} \cup {NQuestions})

AcceptTokens == {<<"y", "e", "s">>, <<"y">>, <<"j", "a">>, <<"o", "k">>, <<"o", "k", "a", "y">>, <<"a", "k", "k", "o", "o", "r", "d">>, <<"a", "c", "c", "e", "p", "t">>}

YesTokens == {<<"y", "e", "s">>, <<"y">>, <<"j", "a">>}

NoTokens == {<<"n", "o">>, <<"n">>, <<"n", "e", "e">>}

\* the step handles a message of the question loop: the conversation is
\* collecting, no finalize/jira confirmation is awaited, and the message is
\* not a named command
InFlow ==
    /\ Before.status = "collecting"
    /\ Before.confirm_action = "None"
    /\ SentCommand = "None"

\* the message answers the question at the cursor
AtQuestion == InFlow /\ Before.pending.field = 0 /\ Before.index < NQuestions

\* the message arrives while a proposal is pending
AtProposal == InFlow /\ Before.pending.field # 0

\* the pending proposal is for the gate field and carries no detail yet
BareGateProposal ==
    /\ Before.pending.field = risicoafweging
    /\ Lower(Strip(IF Before.pending.candidate = None THEN <<>> ELSE Before.pending.candidate))
         \in {<<>>, <<"y", "e", "s">>, <<"j", "a">>}

\* the mode one message resolves to: its one-shot prefix, else the persistent mode
Resolved(parsed) == IF parsed.forced # "None" THEN parsed.forced ELSE Before.mode

\* the completions of the drafting service, as the handler keeps them
Completions == {Strip(o) : o \in ExternalOutcomes \ {ExternalError}}

\* what the drafting service may hand back for a text
Drafts(text) == IF Blank(text) THEN {<<>>} ELSE {text} \cup Completions

\* the record apart from field f is the same before and after
OthersUnchanged(f) == \A g \in Fields \ {f} : After.data[g] = Before.data[g]

\* the message is `new` or `new <text>`
SentIsNew == SentLower = <<"n", "e", "w">> \/ StartsWith(SentLower, <<"n", "e", "w", " ">>)

\* C1: in every collecting conversation the cursor is the smallest position
\* whose record value is unset or blank (len(questions) if there is none)
C1_CursorAtFirstUnanswered ==
    \A t \in Threads :
        state[t].status = "collecting" => state[t].index = FirstUnanswered(state[t])

\* C2: finalize and jira, sent while a field is unanswered or a proposal is
\* pending, only set confirm_action and ask; the action is not run
C2_RiskyAsksWhenUnanswered ==
    [][ \A action \in {"finalize", "jira"} :
          ( /\ Before.status = "collecting"
            /\ Before.confirm_action = "None"
            /\ SentCommand = action
            /\ (FirstUnanswered(Before) < NQuestions \/ Before.pending.field # 0) )
          => /\ After = [Before EXCEPT !.confirm_action = action]
             /\ said' = <<"warning_incomplete", action>> ]_vars

\* C3 (as stated): a story-mode answer to a non-gate question leaves record
\* and cursor alone and installs a proposal for the field; while a proposal
\* for a field is pending only an accept token changes that field's value
C3_OnlyAcceptMutates ==
    [][ /\ ( /\ AtQuestion
             /\ QField(Before.index) # risicoafweging
             /\ Resolved(SentBody) = "story" )
           => /\ After.data = Before.data
              /\ After.index = Before.index
              /\ After.pending.field = QField(Before.index)
        /\ ( /\ Before.status = "collecting"
             /\ After.status = "collecting"
             /\ Before.pending.field # 0
             /\ After.data[Before.pending.field] # Before.data[Before.pending.field] )
           => SentLower \in AcceptTokens ]_vars

\* C3 (amended): a story-mode answer to a non-gate question leaves record and
\* cursor alone and installs a proposal for the field; while a proposal for a
\* field is pending that field's value changes only by an accept token, by
\* `new <text>` resolved to literal, or by a literal `edit` of the field
C3_OnlyCommitsMutate ==
    [][ /\ ( /\ AtQuestion
             /\ QField(Before.index) # risicoafweging
             /\ Resolved(SentBody) = "story" )
           => /\ After.data = Before.data
              /\ After.index = Before.index
              /\ After.pending.field = QField(Before.index)
              /\ After.pending.candidate \in Drafts(SentBody.rest)
        /\ ( /\ Before.status = "collecting"
             /\ After.status = "collecting"
             /\ Before.pending.field # 0
             /\ After.data[Before.pending.field] # Before.data[Before.pending.field] )
           => \/ SentLower \in AcceptTokens /\ After.pending.field = 0
              \/ SentIsNew /\ Resolved(SentNew) = "literal" /\ After.pending.field = 0
              \/ /\ SentCommand = "edit"
                 /\ Resolved(SentEdit.value) = "literal"
                 /\ SentEdit.key = Before.pending.field ]_vars

\* a story answer has just installed a proposal for the first question
C3_Witness ==
    /\ event.text = <<" ", "f", "o", "o", " ">>
    /\ state[MainThread].status = "collecting"
    /\ state[MainThread].mode = "story"
    /\ state[MainThread].index = 0
    /\ state[MainThread].pending.field = QField(0)
    /\ Len(state[MainThread].pending.history) = 2
    /\ state[MainThread].data[QField(0)] = None
    /\ said = <<"proposal">>

\* C4 (as stated): in literal mode a free-text answer to the non-gate question
\* at position i sets the record to exactly the message text, creates no
\* proposal and sets the cursor to i+1
C4_LiteralCommitsExactText ==
    [][ ( /\ AtQuestion
          /\ Before.mode = "literal"
          /\ QField(Before.index) # risicoafweging )
        => /\ After.data[QField(Before.index)] = Sent
           /\ After.pending = NoPending
           /\ After.index = Before.index + 1 ]_vars

\* C4 (amended): in literal mode a free-text answer that does not start with
\* `story` sets the record of the non-gate question at position i to the
\* trimmed message text, less a leading `literal` prefix, creates no proposal
\* and sets the cursor to i+1
C4_LiteralCommitsTrimmedBody ==
    [][ ( /\ AtQuestion
          /\ Before.mode = "literal"
          /\ QField(Before.index) # risicoafweging
          /\ SentBody.forced # "story" )
        => /\ After.data[QField(Before.index)] =
                 SentBody.rest
           /\ OthersUnchanged(QField(Before.index))
           /\ After.pending = NoPending
           /\ After.index = Before.index + 1 ]_vars

\* a literal-mode answer has just been committed trimmed
C4_Witness ==
    /\ event.text = <<" ", "f", "o", "o", " ">>
    /\ state[MainThread].mode = "literal"
    /\ state[MainThread].data[QField(0)] = <<"f", "o", "o">>
    /\ state[MainThread].index = 1
    /\ state[MainThread].pending = NoPending
    /\ said = <<"next_question", "Thank you">>

\* C5: an accept token for a gate proposal whose candidate is empty, `yes` or
\* `ja` (any case, trimmed) changes nothing and asks for the detail
C5_BareGateAcceptRejected ==
    [][ (AtProposal /\ BareGateProposal /\ SentLower \in AcceptTokens)
        => /\ After = Before
           /\ said' = <<"need_risk_assessment_detail">> ]_vars

\* an accept token has just been rejected for the gate candidate `JA`
C5_Witness ==
    /\ event.text = <<"y", "e", "s">>
    /\ said = <<"need_risk_assessment_detail">>
    /\ state[MainThread].pending.field = risicoafweging
    /\ state[MainThread].pending.candidate = <<"J", "A">>

\* C6: a yes token at the gate question commits `yes`, keeps the cursor and
\* installs a proposal seeded with `yes`; the next free text sets the
\* candidate to `yes: <drafted detail>` without committing; an accept token
\* then commits the candidate and moves the cursor to the next unanswered
\* position
C6_GateYesDetailAccept ==
    [][ /\ ( /\ AtQuestion
             /\ QField(Before.index) = risicoafweging
             /\ SentLower \in YesTokens )
           => /\ After.data[risicoafweging] = <<"y", "e", "s">>
              /\ OthersUnchanged(risicoafweging)
              /\ After.index = Before.index
              /\ After.pending.field = risicoafweging
              /\ After.pending.candidate = <<"y", "e", "s">>
        /\ ( /\ AtProposal
             /\ QField(Before.index) = risicoafweging
             /\ Before.pending.field = risicoafweging
             /\ Before.pending.candidate = <<"y", "e", "s">>
             /\ SentLower \notin AcceptTokens )
           => /\ After.data = Before.data
              /\ After.index = Before.index
              /\ After.pending.field = risicoafweging
              /\ \E d \in Drafts(SentBody.rest) \cup {SentBody.rest} :
                     After.pending.candidate = <<"y", "e", "s", ":", " ">> \o d
        /\ ( /\ AtProposal
             /\ QField(Before.index) = risicoafweging
             /\ Before.pending.field = risicoafweging
             /\ StartsWith(Before.pending.candidate, <<"y", "e", "s", ":", " ">>)
             /\ SentLower \in AcceptTokens )
           => /\ After.data[risicoafweging] = Before.pending.candidate
              /\ OthersUnchanged(risicoafweging)
              /\ After.pending = NoPending
              /\ After.index = NextUnanswered(After, Before.index)
              /\ After.index > Before.index ]_vars

\* the detailed gate candidate has just been committed by an accept token
C6_Witness ==
    /\ event.text = <<"y", "e", "s">>
    /\ state[MainThread].status = "collecting"
    /\ state[MainThread].data[risicoafweging] = <<"y", "e", "s", ":", " ", "D", "r", "a", "f", "t", ".">>
    /\ state[MainThread].pending = NoPending
    /\ state[MainThread].index = risicoafweging
    /\ said = <<"next_question", "Confirmed">>

\* C7 (as stated): at the gate question a no token commits `no` and moves the
\* cursor to the next unanswered position without a proposal; a message that
\* is no yes token, no token or named command changes nothing and asks again
C7_GateNoOrReprompt ==
    [][ /\ ( /\ AtQuestion
             /\ QField(Before.index) = risicoafweging
             /\ SentLower \in NoTokens )
           => /\ After.data[risicoafweging] = <<"n", "o">>
              /\ OthersUnchanged(risicoafweging)
              /\ After.pending = NoPending
              /\ After.index = NextUnanswered(After, Before.index + 1)
        /\ ( /\ AtQuestion
             /\ QField(Before.index) = risicoafweging
             /\ SentLower \notin YesTokens \cup NoTokens )
           => /\ After = Before
              /\ said' = <<"risk_assessment_yesno_prompt">> ]_vars

\* C7 (amended): the same, the tokens being looked for in the message less a
\* leading `story` or `literal` prefix
C7_GateNoOrRepromptAfterPrefix ==
    [][ /\ ( /\ AtQuestion
             /\ QField(Before.index) = risicoafweging
             /\ SentBodyLower \in NoTokens )
           => /\ After.data[risicoafweging] = <<"n", "o">>
              /\ OthersUnchanged(risicoafweging)
              /\ After.pending = NoPending
              /\ After.index = NextUnanswered(After, Before.index + 1)
        /\ ( /\ AtQuestion
             /\ QField(Before.index) = risicoafweging
             /\ SentBodyLower \notin YesTokens \cup NoTokens )
           => /\ After = Before
              /\ said' = <<"risk_assessment_yesno_prompt">> ]_vars

\* `literal no` has just committed `no` at the gate question
C7_Witness ==
    /\ event.text = <<"l", "i", "t", "e", "r", "a", "l", " ", "n", "o">>
    /\ state[MainThread].status = "collecting"
    /\ state[MainThread].data[risicoafweging] = <<"n", "o">>
    /\ state[MainThread].pending = NoPending
    /\ state[MainThread].index = risicoafweging
    /\ said = <<"next_question", "Thank you">>

\* C8: an accept token for a proposal, not blocked by the gate rule, sets the
\* proposal's field to the candidate, clears the proposal, changes no other
\* field and puts the cursor at the first unanswered position
C8_AcceptCommitsAndRecomputes ==
    [][ (AtProposal /\ ~BareGateProposal /\ SentLower \in AcceptTokens)
        => /\ After.data[Before.pending.field] = Before.pending.candidate
           /\ OthersUnchanged(Before.pending.field)
           /\ After.pending = NoPending
           /\ After.index = FirstUnanswered(After) ]_vars

\* C9 (as stated): `new <text>` resolved to literal while a proposal is
\* pending sets the proposal's field to <text>, clears the proposal and moves
\* the cursor as acceptance does
C9_NewLiteralCommits ==
    [][ (AtProposal /\ SentIsNew /\ Resolved(SentNew) = "literal")
        => /\ After.data[Before.pending.field] = SentNew.rest
           /\ OthersUnchanged(Before.pending.field)
           /\ After.pending = NoPending
           /\ After.index = NextUnanswered(After, Before.index) ]_vars

\* C9 (amended): the same, unless the proposal is a gate proposal that still
\* lacks its detail
C9_NewLiteralCommitsUnlessBareGate ==
    [][ (AtProposal /\ ~BareGateProposal /\ SentIsNew /\ Resolved(SentNew) = "literal")
        => /\ After.data[Before.pending.field] = SentNew.rest
           /\ OthersUnchanged(Before.pending.field)
           /\ After.pending = NoPending
           /\ After.index = NextUnanswered(After, Before.index) ]_vars

\* `new literal: keep as is` has just been committed in story mode
C9_Witness ==
    /\ event.text = <<"n", "e", "w", " ", "l", "i", "t", "e", "r", "a", "l", ":", " ", "k", "e", "e", "p", " ", "a", "s", " ", "i", "s">>
    /\ state[MainThread].status = "collecting"
    /\ state[MainThread].mode = "story"
    /\ state[MainThread].data[QField(0)] = <<"k", "e", "e", "p", " ", "a", "s", " ", "i", "s">>
    /\ state[MainThread].pending = NoPending
    /\ state[MainThread].index = 1
    /\ said = <<"next_question", "Confirmed">>

\* C10 (as stated): `new <text>` resolved to story while a proposal is pending
\* replaces it by a proposal for the same field with a fresh draft of <text>
\* and the two-turn history (user: <text>, assistant: the draft); record and
\* cursor are unchanged
C10_NewStoryResets ==
    [][ (AtProposal /\ SentIsNew /\ Resolved(SentNew) = "story")
        => /\ After.pending.field = Before.pending.field
           /\ After.pending.candidate \in Drafts(SentNew.rest)
           /\ After.pending.history =
                << [role |-> "user", content |-> SentNew.rest],
                   [role |-> "assistant", content |-> After.pending.candidate] >>
           /\ After.data = Before.data
           /\ After.index = Before.index ]_vars

\* C10 (amended): the same, unless the proposal is a gate proposal that still
\* lacks its detail
C10_NewStoryResetsUnlessBareGate ==
    [][ (AtProposal /\ ~BareGateProposal /\ SentIsNew /\ Resolved(SentNew) = "story")
        => /\ After.pending.field = Before.pending.field
           /\ After.pending.candidate \in Drafts(SentNew.rest)
           /\ After.pending.history =
                << [role |-> "user", content |-> SentNew.rest],
                   [role |-> "assistant", content |-> After.pending.candidate] >>
           /\ After.data = Before.data
           /\ After.index = Before.index ]_vars

\* `new foo` has just replaced a proposal by a fresh one
C10_Witness ==
    /\ event.text = <<"n", "e", "w", " ", "f", "o", "o">>
    /\ state[MainThread].status = "collecting"
    /\ state[MainThread].pending.field = QField(0)
    /\ state[MainThread].pending.candidate = <<"D", "r", "a", "f", "t", ".">>
    /\ state[MainThread].pending.history =
         << [role |-> "user", content |-> <<"f", "o", "o">>], [role |-> "assistant", content |-> <<"D", "r", "a", "f", "t", ".">>] >>
    /\ state[MainThread].data[QField(0)] = None
    /\ said = <<"proposal">>

\* the turns a revision appends to the history: the instruction, then the result
RevisionTurns ==
    << [role |-> "user", content |-> SentRaw],
       [role |-> "assistant", content |-> After.pending.candidate] >>

\* C11 (as stated): while a proposal is pending a message that is no named
\* command, no accept token and not `new ...` is a revision instruction: the
\* history grows by the instruction as a user turn and the revision result as
\* an assistant turn, the candidate is the revision result, and the proposal's
\* field, the record, the cursor and the mode are unchanged
C11_RevisionAppendsTwoTurns ==
    [][ (AtProposal /\ SentLower \notin AcceptTokens /\ ~SentIsNew)
        => /\ After.pending.history = Before.pending.history \o RevisionTurns
           /\ After.pending.candidate \in {SentRaw} \cup Completions
           /\ After.pending.field = Before.pending.field
           /\ After.data = Before.data
           /\ After.index = Before.index
           /\ After.mode = Before.mode ]_vars

\* C11 (amended): the same, unless the proposal is a gate proposal that still
\* lacks its detail
C11_RevisionAppendsTwoTurnsUnlessBareGate ==
    [][ (AtProposal /\ ~BareGateProposal /\ SentLower \notin AcceptTokens /\ ~SentIsNew)
        => /\ After.pending.history = Before.pending.history \o RevisionTurns
           /\ After.pending.candidate \in {SentRaw} \cup Completions
           /\ After.pending.field = Before.pending.field
           /\ After.data = Before.data
           /\ After.index = Before.index
           /\ After.mode = Before.mode
           /\ After.status = "collecting"
           /\ said' = <<"proposal">> ]_vars

\* the instruction `no` has just revised the proposal drafted from ` foo `
C11_Witness ==
    /\ event.text = <<"n", "o">>
    /\ state[MainThread].pending.field = QField(0)
    /\ state[MainThread].pending.candidate = <<"D", "r", "a", "f", "t", ".">>
    /\ Len(state[MainThread].pending.history) = 4
    /\ state[MainThread].pending.history[1] = [role |-> "user", content |-> <<"f", "o", "o">>]
    /\ state[MainThread].pending.history[3] = [role |-> "user", content |-> <<"n", "o">>]
    /\ state[MainThread].pending.history[4] = [role |-> "assistant", content |-> <<"D", "r", "a", "f", "t", ".">>]
    /\ state[MainThread].data[QField(0)] = None
    /\ state[MainThread].index = 0
    /\ said = <<"proposal">>

\* the named commands other than cancel
KeepingCommands ==
    {"help", "status", "show", "fields", "continue", "mode", "showmode", "edit", "finalize", "jira"}

\* C12: in a collecting conversation with no confirmation outstanding a named
\* command other than cancel leaves an existing proposal (field, candidate and
\* history) and the cursor unchanged
C12_CommandsKeepProposalAndCursor ==
    [][ ( /\ Before.status = "collecting"
          /\ Before.confirm_action = "None"
          /\ Before.pending.field # 0
          /\ SentCommand \in KeepingCommands )
        => /\ After.pending = Before.pending
           /\ After.index = Before.index ]_vars

\* a confirmation of finalize or jira is awaited
AwaitingConfirmation ==
    Before.status = "collecting" /\ Before.confirm_action \in {"finalize", "jira"}

\* C13: while confirm_action is set only an accept token or a decline token
\* resolves it; any other message, named commands included, is not executed,
\* changes nothing of the conversation and is answered by the instruction to
\* proceed or cancel and the restated next step
C13_ConfirmationComesFirst ==
    [][ /\ (AwaitingConfirmation /\ SentLower \notin AcceptTokens \cup NoTokens)
           => /\ After = Before
              /\ said' = <<"proceed_or_cancel_instruction", "next_step">>
        /\ (AwaitingConfirmation /\ After.confirm_action # Before.confirm_action)
           => /\ SentLower \in AcceptTokens \cup NoTokens
              /\ After.confirm_action = "None" ]_vars

\* `cancel` has just been refused while the confirmation of finalize is awaited
C13_Witness ==
    /\ event.text = <<"c", "a", "n", "c", "e", "l">>
    /\ state[MainThread].status = "collecting"
    /\ state[MainThread].confirm_action = "finalize"
    /\ said = <<"proceed_or_cancel_instruction", "next_step">>

\* what the user is told when an action has run
Outcome(action) ==
    IF action = "finalize" THEN {<<"final_document">>}
    ELSE {<<"jira_created">>, <<"jira_updated">>, <<"could_not_create_jira">>}

\* C14: finalize or jira asking for confirmation sets confirm_action and
\* nothing else; a decline token then clears confirm_action and changes
\* nothing else, so that the conversation is as before the request and the
\* action, sent again, asks again; an accept token clears confirm_action, runs
\* the action that was requested and no other, and commits nothing: record,
\* cursor and proposal are unchanged and the record is still incomplete
C14_DeclineRestoresAcceptRuns ==
    [][ /\ \A action \in {"finalize", "jira"} :
              ( /\ Before.status = "collecting"
                /\ Before.confirm_action = "None"
                /\ (Before.pending.field # 0 \/ Before.index < NQuestions)
                /\ SentCommand = action )
              => /\ After = [Before EXCEPT !.confirm_action = action]
                 /\ said' = <<"warning_incomplete", action>>
        /\ (AwaitingConfirmation /\ SentLower \in NoTokens)
           => /\ After = [Before EXCEPT !.confirm_action = "None"]
              /\ (After.pending.field # 0 \/ After.index < NQuestions)
              /\ ~After.override_incomplete
              /\ said' = <<"next_step">>
        /\ (AwaitingConfirmation /\ SentLower \in AcceptTokens)
           => /\ After = [Before EXCEPT !.confirm_action = "None"]
              /\ (After.pending.field # 0 \/ After.index < NQuestions)
              /\ ~After.override_incomplete
              /\ said' \in Outcome(Before.confirm_action) ]_vars

\* finalize has just run on an incomplete record after an accept token
C14_Witness ==
    /\ event.text = <<"y", "e", "s">>
    /\ said = <<"final_document">>
    /\ state[MainThread].status = "collecting"
    /\ state[MainThread].confirm_action = "None"
    /\ state[MainThread].pending.field # 0
    /\ state[MainThread].index < NQuestions

\* the message is the start token
SentIsStart == SentLower \in {<<"s", "t", "a", "r", "t">>, <<"/", "s", "t", "a", "r", "t">>}

\* nothing is answered, proposed or awaited
BlankSlate(c) ==
    /\ \A f \in Fields : c.data[f] = None
    /\ c.index = 0
    /\ c.mode = "story"
    /\ c.pending.field = 0
    /\ c.pending.candidate = None
    /\ c.pending.history = <<>>
    /\ c.confirm_action = "None"
    /\ ~c.override_incomplete
    /\ c.autofill_queue = <<>>

\* the conversation is collecting with nothing answered, proposed or awaited
Fresh(c) == c.status = "collecting" /\ c.preface_index = 0 /\ BlankSlate(c)

\* C15: in preface at a step k before the last an accept token moves to step
\* k+1 and any other message changes nothing; at the last step the start token
\* makes the conversation collecting with an unset record, cursor 0, mode
\* story, no proposal and no confirm_action, and any other message, accept
\* tokens included, changes nothing
C15_PrefaceStepsThenStart ==
    [][ /\ (Before.status = "preface" /\ Before.preface_index < PrefaceSteps)
           => IF SentLower \in AcceptTokens
              THEN After = [Before EXCEPT !.preface_index = Before.preface_index + 1]
              ELSE After = Before
        /\ (Before.status = "preface" /\ Before.preface_index >= PrefaceSteps)
           => IF SentIsStart THEN Fresh(After) ELSE After = Before ]_vars

\* an accept token has just been refused at the last preface step
C15_Witness ==
    /\ event.text = <<"y", "e", "s">>
    /\ state[MainThread].status = "preface"
    /\ state[MainThread].preface_index = PrefaceSteps
    /\ said = <<"preface_step_text">>

\* no conversation is stored for the thread
Absent(c) == c.status = "none" /\ c.preface_index = 0 /\ BlankSlate(c)

Installed(f, cand) ==
    /\ After.status = "collecting"
    /\ After.pending.field = f
    /\ After.pending.candidate = cand
    /\ After.data = Before.data
    /\ After.index = Before.index
    /\ said' \in {<<"proposal">>, <<"proposal_edit">>}

\* the steps that draft a text, apart from the gate follow-up, and the step
\* that revises: with every call raising, the proposal installed carries the
\* text handed to the call, and an accept token commits it
FailedDraftsAreVerbatim ==
    /\ ( /\ AtQuestion
         /\ QField(Before.index) # risicoafweging
         /\ Resolved(SentBody) = "story"
         /\ ~Blank(SentBody.rest) )
       => Installed(QField(Before.index), SentBody.rest)
    /\ ( /\ Before.status = "collecting"
         /\ Before.confirm_action = "None"
         /\ SentCommand = "edit"
         /\ SentEdit.complete
         /\ SentEdit.key # 0
         /\ Resolved(SentEdit.value) = "story"
         /\ ~Blank(SentEdit.value.rest) )
       => Installed(SentEdit.key, SentEdit.value.rest)
    /\ ( /\ AtProposal
         /\ ~BareGateProposal
         /\ SentIsNew
         /\ Resolved(SentNew) = "story"
         /\ ~Blank(SentNew.rest) )
       => Installed(Before.pending.field, SentNew.rest)
    /\ ( /\ AtProposal
         /\ ~BareGateProposal
         /\ SentLower \notin AcceptTokens
         /\ ~SentIsNew )
       => Installed(Before.pending.field, SentRaw)
    /\ (AtProposal /\ ~BareGateProposal /\ SentLower \in AcceptTokens)
       => /\ After.data[Before.pending.field] = Before.pending.candidate
          /\ After.pending.field = 0
          /\ After.status = "collecting"

\* the message is the detail of a gate proposal that still lacks it
GateFollowUp == AtProposal /\ BareGateProposal /\ SentLower \notin AcceptTokens

\* C17 (as stated): when the drafting call fails while answering in story
\* mode, on edit, on new or on the gate follow-up, the candidate of the
\* proposal installed is the input text, and when the revision call fails it
\* is the latest instruction; the record is unchanged
C17_FailedDraftIsVerbatim ==
    [][ /\ FailedDraftsAreVerbatim
        /\ GateFollowUp => Installed(risicoafweging, SentBody.rest) ]_vars

\* C17 (amended): the same, the candidate of the gate follow-up being `yes: `
\* followed by the input text
C17_FailedDraftIsVerbatimAfterYes ==
    [][ /\ FailedDraftsAreVerbatim
        /\ GateFollowUp => Installed(risicoafweging, <<"y", "e", "s", ":", " ">> \o SentBody.rest) ]_vars

\* the drafting call has just failed for the detail `foo` of the gate field
C17_Witness ==
    /\ event.text = <<" ", "f", "o", "o", " ">>
    /\ state[MainThread].status = "collecting"
    /\ state[MainThread].pending.field = risicoafweging
    /\ state[MainThread].pending.candidate = <<"y", "e", "s", ":", " ", "f", "o", "o">>
    /\ state[MainThread].data[risicoafweging] = <<"y", "e", "s">>
    /\ said = <<"proposal">>

\* the step runs the export: `jira` on a complete record, or an accept token
\* confirming `jira`
ExportRuns ==
    /\ Before.status = "collecting"
    /\ \/ /\ Before.confirm_action = "None"
          /\ SentCommand = "jira"
          /\ Before.pending.field = 0
          /\ Before.index >= NQuestions
       \/ /\ Before.confirm_action = "jira"
          /\ SentLower \in AcceptTokens

\* C18: an export during which a call to the ticket system fails tells the
\* user of the failure, once, and leaves the conversation (apart from the
\* confirmation it resolves) and the user's session as they were
C18_FailedExportReported ==
    [][ ExportRuns
        => /\ said' = <<"could_not_create_jira">>
           /\ After = [Before EXCEPT !.confirm_action = "None"]
           /\ SESSIONS' = SESSIONS ]_vars

\* the token as the rules see it: trimmed and lower-cased
Normal(token) == Lower(Strip(token))

\* the fields each rule selects for a normalised token: the key is the token;
\* the numeric label is the token; the label starts with or contains the
\* token; the key contains the token
RuleHits(t) ==
    << {f \in Fields : Catalog[f].key = t},
       {f \in Fields : IsNumberToken(LabelNumber(Catalog[f].label))
                         /\ LabelNumber(Catalog[f].label) = t},
       {f \in Fields : StartsWith(Lower(Catalog[f].label), t) \/ Contains(Lower(Catalog[f].label), t)},
       {f \in Fields : Contains(Lower(Catalog[f].key), t)} >>

\* the first rule that selects a field, 0 if none does
FirstRule(t) == Min({r \in 1..4 : RuleHits(t)[r] # {}} \cup {5}) % 5

\* the earliest field of the first rule that selects one, 0 (not found) for an
\* empty token or a token no rule matches
ExpectedField(token) ==
    IF Normal(token) = <<>> \/ FirstRule(Normal(token)) = 0 THEN 0
    ELSE Min(RuleHits(Normal(token))[FirstRule(Normal(token))])

Handled(text, user, ext) ==
    Handle(state[MainThread], MainThread \in roots, Message[text],
           _set_session_dm(SESSIONS, user, DmChannel)[user], ext)

\* C20: the key of a catalogue field and the number of its label both
\* resolve to that field; `edit <number> x` and `edit <key> x`, handled in the
\* same state with the same behaviour of the drafting service, leave the
\* same conversation (the same proposal in story mode, the same record in
\* literal mode) and say the same
C20_KeyAndNumberEditAlike ==
    \A f \in Fields :
        /\ Message[EditByKey[f]].edit.key = f
        /\ Message[EditByNumber[f]].edit.key = f
        /\ \A user \in Users, ext \in ExternalOutcomes :
               Handled(EditByKey[f], user, ext) = Handled(EditByNumber[f], user, ext)

\* `edit 2.3 x` has just installed the proposal that `edit risicoafweging x`
\* installs
C20_Witness ==
    /\ event.text = EditByNumber[risicoafweging]
    /\ EditByKey[risicoafweging] = <<"e", "d", "i", "t", " ", "r", "i", "s", "i", "c", "o", "a", "f", "w", "e", "g", "i", "n", "g", " ", "x">>
    /\ state[MainThread].status = "collecting"
    /\ state[MainThread].mode = "story"
    /\ state[MainThread].pending.field = risicoafweging
    /\ state[MainThread].pending.candidate = <<"D", "r", "a", "f", "t", ".">>
    /\ said = <<"proposal_edit">>

\* the message is a command that is executed
Executed(cmd) ==
    Before.status = "collecting" /\ Before.confirm_action = "None" /\ SentCommand = cmd

\* the input error of each message, read off its words
InputError ==
    [t \in AllTexts |->
        LET words == Split(Strip(t), 2)
            first == Lower(words[1])
        IN  IF first = <<"e", "d", "i", "t">> /\ Len(words) < 3 THEN "usage_edit_example"
            ELSE IF first = <<"e", "d", "i", "t">> /\ ExpectedField(words[2]) = 0 THEN "unknown_field"
            ELSE IF first = <<"m", "o", "d", "e">> /\ Lower(Strip(Split(Strip(t), 1)[2])) \notin {<<"l", "i", "t", "e", "r", "a", "l">>, <<"s", "t", "o", "r", "y">>}
                 THEN "usage_mode"
            ELSE "None"]

\* C21: an edit whose field token resolves to no field, an edit with fewer
\* than three parts and a mode command whose choice is neither literal nor
\* story are answered with a corrective message and change nothing of the
\* conversation
C21_InputErrorsChangeNothing ==
    [][ (Executed("edit") \/ Executed("mode")) /\ InputError[Sent] # "None"
           => After = Before /\ said' = <<InputError[Sent]>> ]_vars

\* `mode fast` has just been refused in literal mode while a proposal is pending
C21_Witness ==
    /\ event.text = <<"m", "o", "d", "e", " ", "f", "a", "s", "t">>
    /\ said = <<"usage_mode">>
    /\ state[MainThread].status = "collecting"
    /\ state[MainThread].mode = "literal"
    /\ state[MainThread].pending.field # 0

\* the choice of a well-formed `mode` command, "None" for any other message
ModeWord ==
    [t \in AllTexts |->
        LET words == Split(Lower(Strip(t)), 1)
            word == IF Len(words) = 2 THEN Strip(words[2]) ELSE <<>>
        IN  IF words[1] # <<"m", "o", "d", "e">> THEN "None"
            ELSE IF word = <<"l", "i", "t", "e", "r", "a", "l">> THEN "literal"
            ELSE IF word = <<"s", "t", "o", "r", "y">> THEN "story"
            ELSE "None"]

\* C22: a one-shot prefix decides the handling of its message only: within a
\* conversation the persistent mode changes only by an executed `mode`
\* command, and an answer to a non-gate question is handled by its prefix if
\* it has one and by the persistent mode otherwise
C22_PrefixIsOneShot ==
    [][ /\ (Before.status = "collecting" /\ After.status = "collecting")
           => After.mode = IF Executed("mode") /\ ModeWord[Sent] # "None"
                           THEN ModeWord[Sent] ELSE Before.mode
        /\ (AtQuestion /\ QField(Before.index) # risicoafweging /\ Resolved(SentBody) = "story")
           => /\ After.pending.field = QField(Before.index)
              /\ After.pending.candidate \in Drafts(SentBody.rest)
              /\ After.data = Before.data
        /\ (AtQuestion /\ QField(Before.index) # risicoafweging /\ Resolved(SentBody) = "literal")
           => /\ After.data[QField(Before.index)] = SentBody.rest
              /\ After.pending = NoPending ]_vars

\* in literal mode `story bar` has just been drafted into a proposal, the mode
\* still being literal
C22_Witness ==
    /\ event.text = <<"s", "t", "o", "r", "y", " ", "b", "a", "r">>
    /\ state[MainThread].status = "collecting"
    /\ state[MainThread].mode = "literal"
    /\ state[MainThread].pending.field = QField(0)
    /\ state[MainThread].pending.history[1].content = <<"b", "a", "r">>
    /\ state[MainThread].data[QField(0)] = None
    /\ said = <<"proposal">>

\* the position of key k in the list l, 0 if it is not in it
Position(l, k) == IF \E i \in 1..Len(l) : l[i] = k THEN CHOOSE i \in 1..Len(l) : l[i] = k ELSE 0

\* list `after` is list `before` less key k, the other keys in their order
Without(before, after, k) ==
    /\ \A j \in Keys : Position(after, j) # 0 <=> (j # k /\ Position(before, j) # 0)
    /\ \A i, j \in 1..Len(after) :
           i < j <=> Position(before, after[i]) < Position(before, after[j])

\* C23: linking key K for user U makes U's session active with K as its
\* linked key, takes K out of U's pending keys, the others remaining in their
\* order, and changes the session of no other user
C23_LinkActivatesAndRemovesKey ==
    (call.fn = "_link_issue_to_session" /\ call.result # NotReturned)
    => LET U == call.arg.user_id
           K == call.arg.issue_key
           before == call.arg.SESSIONS
       IN  /\ SESSIONS[U].state = "ACTIVE"
           /\ SESSIONS[U].linked_issue_key = K
           /\ Without(before[U].pending_incident_keys, SESSIONS[U].pending_incident_keys, K)
           /\ \A V \in Reporters \ {U} : SESSIONS[V] = before[V]

\* K2 has been linked for a user who had K1, K2 and K3 pending, in the order
\* K3, K2, K1
C23_Witness ==
    /\ call.fn = "_link_issue_to_session"
    /\ call.result # NotReturned
    /\ call.arg.issue_key = "K2"
    /\ call.arg.SESSIONS[call.arg.user_id].pending_incident_keys = <<"K3", "K2", "K1">>
    /\ SESSIONS[call.arg.user_id].pending_incident_keys = <<"K3", "K1">>
    /\ SESSIONS[call.arg.user_id].state = "ACTIVE"

\* the step handles a message and runs the export
MessageExports == event'.kind = "message" /\ ExportRuns

\* the calls of one operation among those the step makes to the ticket system
Made(op) == {i \in 1..Len(jira') : jira'[i].op = op}

\* the custom field that carries the chapter a catalogue field belongs to
GroupOf(f) ==
    LET chapter == LabelNumber(Catalog[f].label)[1]
    IN  IF chapter = "2" THEN "customfield_10061"
        ELSE IF chapter = "3" THEN "customfield_10062"
        ELSE IF chapter = "4" THEN "customfield_10063"
        ELSE "None"

\* the custom fields of the chapters in which record c has a value
Groups(c) == {GroupOf(f) : f \in {g \in Fields : ~Blank(c.data[g])}} \ {"None"}

\* the key linked in the session of the user whose message is handled
LinkedKey == SESSIONS'[event'.user].linked_issue_key

\* the export creates one issue, grouped as the record demands, and updates none
Creates ==
    /\ Made("update_issue") = {}
    /\ Cardinality(Made("create_issue")) = 1
    /\ \A i \in Made("create_issue") : DOMAIN jira'[i].fields = Groups(Before)

\* the export updates the linked issue once, grouped as the record demands
Updates ==
    /\ Cardinality(Made("update_issue")) = 1
    /\ \A i \in Made("update_issue") :
           /\ jira'[i].key = LinkedKey
           /\ DOMAIN jira'[i].fields \ {"description"} = Groups(Before)

C25_StaleSessionReplaced ==
    (call.fn = "_get_or_create_session" /\ call.result # NotReturned)
    => LET U == call.arg.user_id
           before == call.arg.SESSIONS[U]
       IN  /\ (before.state # "absent" /\ call.arg.age <= 2) => SESSIONS[U] = before
           /\ (before.state # "absent" /\ call.arg.age > 2)
                 => /\ SESSIONS[U].linked_issue_key = "None"
                    /\ SESSIONS[U].pending_incident_keys = <<>>

\* the positions of DUTCH_FIELD_LABELS
Positions == 1..Len(DUTCH_FIELD_LABELS)

\* the number of the label at a position, as `2.2`
NumberAt(p) == LabelNumber(DUTCH_FIELD_LABELS[p].label)

\* the fields of chapter 2, 3 or 4, by the custom field that carries them
Subset(name) ==
    {p \in Positions :
        /\ Len(NumberAt(p)) = 3
        /\ \/ name = "customfield_10061" /\ NumberAt(p)[1] = "2"
           \/ name = "customfield_10062" /\ NumberAt(p)[1] = "3"
           \/ name = "customfield_10063" /\ NumberAt(p)[1] = "4"}

\* the sub-headings of a block: its headings of the second level
SubHeadings(block) == {i \in 1..Len(block) : block[i].type = "heading" /\ block[i].level = 2}

\* C26: in the payload of the export a grouped block is present exactly if a
\* field of its subset is not blank; a block has one sub-heading for each
\* field of its subset that is not blank, followed by the trimmed value, and
\* none for a blank field; the description has the trimmed value of the first
\* catalogue field and is empty when that field is blank
C26_PayloadGroups ==
    (call.fn = "create_jira_post" /\ call.result # NotReturned)
    => LET d == call.arg
           payload == jira[1]
       IN  /\ \A name \in {"customfield_10061", "customfield_10062", "customfield_10063"} :
                  /\ name \in DOMAIN payload.fields <=> \E p \in Subset(name) : ~Blank(d[p])
                  /\ name \in DOMAIN payload.fields
                        => LET block == payload.fields[name]
                           IN  /\ Cardinality(SubHeadings(block)) =
                                     Cardinality({p \in Subset(name) : ~Blank(d[p])})
                               /\ \A p \in Subset(name) :
                                      ~Blank(d[p]) <=>
                                          \E i \in SubHeadings(block) :
                                              /\ StartsWith(block[i].text, NumberAt(p) \o <<" ">>)
                                              /\ i < Len(block)
                                              /\ block[i + 1].type = "paragraph"
                                              /\ block[i + 1].text = Strip(d[p])
           /\ payload.description =
                 IF Blank(d[1]) THEN <<>>
                 ELSE <<<<"#", " ", "1", ".", " ", "B", "e", "s", "c", "h", "r", "i", "j", "v", "i", "n", "g", " ", "a", "f", "w", "i", "j", "k", "i", "n", "g">>, Strip(d[1])>>

\* the payload of a record with values in 2.2 and 3.1 only, 2.1 being blank
C26_Witness ==
    /\ call.fn = "create_jira_post"
    /\ call.result # NotReturned
    /\ call.arg[2] = <<" ">>
    /\ call.arg[3] = <<" ", "x", " ">>
    /\ DOMAIN jira[1].fields = {"customfield_10061"}
    /\ Len(jira[1].fields["customfield_10061"]) = 3
    /\ jira[1].fields["customfield_10061"][3].text = <<"x">>
    /\ jira[1].description = <<>>

\* the lines of a document that are the heading of the field at position p:
\* one or two `#`, a space and the label of the field
HeadingLines(md, p) ==
    {i \in 1..Len(md) :
        /\ md[i] # <<>>
        /\ md[i][1] = "#"
        /\ \/ StartsWith(md[i], <<"#", " ">> \o DUTCH_FIELD_LABELS[p].label)
           \/ StartsWith(md[i], <<"#", "#", " ">> \o DUTCH_FIELD_LABELS[p].label)}

\* the value the conversation holds for the field at position p of the
\* template, None for a field outside the catalogue
Held(c, p) == IF CatalogField[p] # 0 THEN c.data[CatalogField[p]] ELSE None

\* the documents the step attaches to an issue
Attached == {jira'[i].md : i \in Made("attach_markdown")}

LinkKinds == {"link_shared", "link_incident_confirm", "pick_pending_incident"}

\* the last event linked an incident and started a conversation in the main thread
LinkStarted(ev) == ev.kind \in LinkKinds /\ ev.thread = MainThread

\* the next event is a message in the thread the link has just started
FirstReply == LinkStarted(event) /\ event'.kind = "message"

RECURSIVE FieldLists(_, _)
FieldLists(fields, n) ==
    IF n = 0 THEN {<<>>}
    ELSE {<<>>} \cup UNION {{<<f>> \o l : l \in FieldLists(fields \ {f}, n - 1)} : f \in fields}

\* collecting conversations with a proposal pending and fields queued
QueuedConvs ==
    {[CollectingConv EXCEPT
        !.data = data,
        !.mode = mode,
        !.pending = [field |-> field, candidate |-> <<"c", "a", "n", "d">>,
                     history |-> << [role |-> "user", content |-> <<"r", "a", "w">>],
                                    [role |-> "assistant", content |-> <<"c", "a", "n", "d">>] >>],
        !.autofill_queue = queue] :
        data \in [Fields -> {None, <<"b", "a", "r">>}], mode \in {"story", "literal"},
        field \in Fields, queue \in FieldLists(Fields, MaxQueue)}

InitQueue ==
    /\ state \in {[t \in Threads |-> IF t = MainThread THEN c ELSE NoConv] : c \in QueuedConvs}
    /\ SESSIONS = [u \in Reporters |-> IF u \in Users THEN [IdleSession EXCEPT !.dm_channel = DmChannel]
                                       ELSE NoSession]
    /\ roots = {MainThread}
    /\ event = NoEvent
    /\ said = <<>>
    /\ call = NoCall
    /\ jira = <<>>

\* an accept token, `new` resolved to literal and to story
TextsQueue == {<<"y", "e", "s">>, <<"n", "e", "w", " ", "l", "i", "t", "e", "r", "a", "l", ":", " ", "k", "e", "e", "p", " ", "a", "s", " ", "i", "s">>, <<"n", "e", "w", " ", "f", "o", "o">>}

NextQueue == StepWith(TextsQueue, {<<" ", "D", "r", "a", "f", "t", ".", " ">>}, {"ok"})

SpecQueue == InitQueue /\ [][NextQueue]_vars

\* the step commits the pending proposal: an accept token, or `new <text>`
\* resolved to literal, not held back by the gate rule
Commits ==
    /\ event'.kind = "message"
    /\ AtProposal
    /\ ~BareGateProposal
    /\ SentLower \in AcceptTokens \/ (SentIsNew /\ Resolved(SentNew) = "literal")

\* the autofill queue once the committed field is taken out of it
QueueLeft == SelectSeq(Before.autofill_queue, LAMBDA f : f # Before.pending.field)

\* what is proposed for a queued field: its value, redrafted in story mode
Proposals(c, f) ==
    IF c.data[f] = None THEN {<<"N", "o", "n", "e">>}
    ELSE IF c.mode = "story" THEN Drafts(c.data[f])
    ELSE {c.data[f]}

\* C29: when a proposal is committed by an accept token or by a literal `new`
\* the committed field is taken out of the autofill queue; if fields are left
\* in it the cursor keeps its value and a proposal for the head of the queue
\* is installed, and only if none is left the cursor is recomputed and no
\* proposal remains
C29_QueueBeforeCursor ==
    [][Commits
        => /\ After.autofill_queue = QueueLeft
           /\ IF QueueLeft # <<>>
              THEN /\ After.index = Before.index
                   /\ After.pending.field = QueueLeft[1]
                   /\ After.pending.candidate \in Proposals(After, QueueLeft[1])
                   /\ said' = <<"proposal">>
              ELSE /\ After.index = NextUnanswered(After, Before.index)
                   /\ After.pending = NoPending ]_vars

\* a literal `new` has committed the first field while the second was queued
\* behind it: the cursor has not moved off the answered first position and the
\* second field's value is proposed
C29_Witness ==
    /\ event.text = <<"n", "e", "w", " ", "l", "i", "t", "e", "r", "a", "l", ":", " ", "k", "e", "e", "p", " ", "a", "s", " ", "i", "s">>
    /\ state[MainThread].data[QField(0)] = <<"k", "e", "e", "p", " ", "a", "s", " ", "i", "s">>
    /\ state[MainThread].index = 0
    /\ state[MainThread].autofill_queue = <<QField(1)>>
    /\ state[MainThread].pending.field = QField(1)
    /\ state[MainThread].pending.candidate = <<"D", "r", "a", "f", "t", ".">>
    /\ said = <<"proposal">>

\* the session of the user a link event names, before and after the handler
SessionBefore == SESSIONS[event'.user]

SessionAfter == SESSIONS'[event'.user]

\* the key is one of the session's pending keys
Pending(sess, key) ==
    \E i \in 1..Len(sess.pending_incident_keys) : sess.pending_incident_keys[i] = key

TextsRace == {<<"s", "t", "a", "r", "t">>, <<"y", "e", "s">>, <<" ", "f", "o", "o", " ">>, <<"n", "e", "w", " ", "f", "o", "o">>}

\* the handler of a refining message runs up to its chat-completion call: it
\* has read the conversation and the pending proposal, and has appended the
\* user's turn to the proposal's history
begin_revision(text, user) ==
    LET conv == state[MainThread]
        m == Message[text]
        history == conv.pending.history \o << [role |-> "user", content |-> m.text_raw] >>
    IN  /\ call = NoCall
        /\ MainThread \in roots
        /\ conv.status = "collecting"
        /\ conv.confirm_action = "None"
        /\ m.cmd = "None"
        /\ HasPending(conv)
        /\ ~m.accept
        /\ ~(conv.pending.field = risicoafweging /\ GateCandidateBare(conv.pending))
        /\ ~m.is_new
        /\ Len(history) < MaxHistory
        /\ state' = [state EXCEPT ![MainThread].pending.history = history]
        /\ SESSIONS' = _set_session_dm(SESSIONS, user, DmChannel)
        /\ call' = Call("_revise_with_history",
                        [conv |-> conv, text |-> text, user |-> user,
                         field |-> conv.pending.field, history |-> history])
        /\ event' = Event(MainThread, TRUE, text, user)
        /\ said' = <<>>
        /\ jira' = <<>>
        /\ UNCHANGED roots

\* the chat-completion call returns and the handler writes the proposal.  Its
\* history list is still the one of the conversation if the proposal was
\* refined meanwhile, and is the list as the handler left it if the proposal
\* was dropped or replaced
end_revision(ext) ==
    LET conv == state[MainThread]
        h == call.arg.history
        shared == /\ conv.pending.field # 0
                  /\ Len(conv.pending.history) >= Len(h)
                  /\ SubSeq(conv.pending.history, 1, Len(h)) = h
        history == IF shared THEN conv.pending.history ELSE h
        revised == _revise_with_history(h, Message[call.arg.text].text_raw, ext)
    IN  /\ call.fn = "_revise_with_history"
        /\ Len(history) < MaxHistory
        /\ state' = [state EXCEPT ![MainThread].pending =
                        [field |-> call.arg.field, candidate |-> revised,
                         history |-> history \o << [role |-> "assistant", content |-> revised] >>]]
        /\ call' = NoCall
        /\ event' = Event(MainThread, TRUE, call.arg.text, call.arg.user)
        /\ said' = <<"proposal">>
        /\ jira' = <<>>
        /\ UNCHANGED <<SESSIONS, roots>>

\* messages are handled one after the other, or one message is handled
\* while the handler of a refining message waits for its completion
NextRace ==
    \/ (call = NoCall \/ said = <<>>) /\ StepWith(TextsRace, {<<" ", "D", "r", "a", "f", "t", ".", " ">>}, {"ok"})
    \/ \E text \in TextsRace, user \in Users : begin_revision(text, user)
    \/ end_revision(<<" ", "D", "r", "a", "f", "t", ".", " ">>)

SpecRace == Init /\ [][NextRace]_vars

\* the conversation after message `first` and then message `second`, handled
\* one after the other
Serial(conv, first, second, sess) ==
    Handle(Handle(conv, TRUE, Message[first], sess, <<" ", "D", "r", "a", "f", "t", ".", " ">>).conv,
           TRUE, Message[second], sess, <<" ", "D", "r", "a", "f", "t", ".", " ">>).conv

\* C32: when a message was handled while the handler of a refining message
\* waited in its drafting call, the conversation the two leave is the one
\* left by handling the two messages one after the other, in one of the two
\* orders
C32_InterleavedIsSerial ==
    [][ (call.fn = "_revise_with_history" /\ call' = NoCall /\ said # <<>>)
        => state'[MainThread] \in
              {Serial(call.arg.conv, call.arg.text, event.text, SESSIONS[call.arg.user]),
               Serial(call.arg.conv, event.text, call.arg.text, SESSIONS[call.arg.user])} ]_vars

\* the fields whose label starts with the token
LabelStarts(t) == {f \in Fields : StartsWith(Lower(Catalog[f].label), t)}

\* C31: a token that is no key and no number and that a label starts with
\* resolves to the earliest field whose label starts with it, also when the
\* label of a field earlier in the catalogue merely contains it
C31_PrefixBeforeSubstring ==
    (call.fn = "_resolve_field_key" /\ call.result # NotReturned)
    => LET t == Lower(Strip(call.arg))
       IN  ( /\ t # <<>>
             /\ \A f \in Fields : Catalog[f].key # t
             /\ NUMBER_INDEX(t) = 0
             /\ LabelStarts(t) # {} )
           => call.result = FirstField(LabelStarts(t))

\* the value is a bare yes, or `yes:` without detail
GateWithoutDetail(v) == v # None /\ Lower(Strip(v)) \in {<<"y", "e", "s">>, <<"j", "a">>, <<"y", "e", "s", ":">>}

\* C33: in a collecting conversation whose cursor is past the binary-gate
\* field the record of that field is not a bare yes and not `yes:` with an
\* empty detail
C33_GateHasDetailOnceLeft ==
    \A t \in Threads :
        (state[t].status = "collecting" /\ QField(state[t].index) > risicoafweging)
        => ~GateWithoutDetail(state[t].data[risicoafweging])

\* C34: after a message has been handled override_incomplete is set in no
\* conversation, so that finalize or jira, sent for an incomplete record
\* while no confirmation is awaited, asks for confirmation whatever was
\* confirmed before
C34_OverrideConsumed ==
    [][ event'.kind = "message"
        => /\ \A t \in Threads : ~state'[t].override_incomplete
           /\ \A action \in {"finalize", "jira"} :
                 ( /\ Executed(action)
                   /\ (Before.pending.field # 0 \/ Before.index < NQuestions) )
                 => /\ After.confirm_action = action
                    /\ said' = <<"warning_incomplete", action>> ]_vars

\* an accept token has just let the export run on an incomplete record, and
\* the override it granted is gone
C34_Witness ==
    /\ event.text = <<"y", "e", "s">>
    /\ said = <<"jira_created">>
    /\ state[MainThread].status = "collecting"
    /\ state[MainThread].index < NQuestions
    /\ state[MainThread].confirm_action = "None"
    /\ ~state[MainThread].override_incomplete

\* the step before this one created an issue in the ticket system
CreatedBefore ==
    /\ said = <<"jira_created">>
    /\ \E i \in 1..Len(jira) : jira[i].op = "create_issue"

\* C35: an export that follows an export that created an issue, in the same
\* conversation, creates no second issue: it updates the issue created before
C35_SecondExportUpdates ==
    [][CreatedBefore /\ event.thread = MainThread /\ MessageExports
            => /\ Made("create_issue") = {}
               /\ \E i \in Made("update_issue") : jira'[i].key = CreatedKey]_vars

\* the turns of a history alternate, starting with the user's
Alternates(h) ==
    \A i \in 1..Len(h) : h[i].role = (IF i % 2 = 1 THEN "user" ELSE "assistant")

\* C36: a history carried by a pending proposal has an even length of at
\* least 2, its turns alternate user, assistant, ..., and the candidate is
\* the content of the last assistant turn
C36_HistoryWellFormed ==
    \A t \in Threads :
        LET pending == state[t].pending
            h == pending.history
        IN  h # <<>>
            => /\ pending.field # 0
               /\ Len(h) >= 2 /\ Len(h) % 2 = 0
               /\ Alternates(h)
               /\ pending.candidate = h[Len(h)].content

\* a proposal has been revised once: four turns, the third being the
\* instruction just sent and the candidate the fourth
C36_Witness ==
    /\ said = <<"proposal">>
    /\ Len(state[MainThread].pending.history) = 4
    /\ state[MainThread].pending.history[3].role = "user"
    /\ state[MainThread].pending.history[3].content = Message[event.text].text_raw
    /\ state[MainThread].pending.candidate = state[MainThread].pending.history[4].content

\* the step brings thread t into collecting
Entered(t) == state[t].status # "collecting" /\ state'[t].status = "collecting"

\* the step handles the start token sent in thread t
StartSentIn(t) == event'.kind = "message" /\ event'.thread = t /\ SentIsStart

\* the preface of thread t begins at step 1 and moves on one step at a time,
\* each time on an accept token sent in the thread
StepsInOrder(t) ==
    state'[t].status = "preface"
    => IF state[t].status = "preface"
       THEN \/ state'[t].preface_index = state[t].preface_index
            \/ /\ state'[t].preface_index = state[t].preface_index + 1
               /\ event'.kind = "message" /\ event'.thread = t
               /\ SentLower \in AcceptTokens
       ELSE state'[t].preface_index = 1

\* `start` is received at the last step of the preface of thread t
StartAtLastStep(t) ==
    /\ state[t].status = "preface"
    /\ state[t].preface_index = PrefaceSteps
    /\ StartSentIn(t)

\* `start` is sent as a reply in thread t, which has no conversation, by a
\* sender who has no incident waiting to be picked
StartWithoutConversation(t) ==
    /\ state[t].status = "none"
    /\ StartSentIn(t)
    /\ event'.has_thread
    /\ SESSIONS'[event'.user].pending_incident_keys = <<>>

\* the original statement of C37: a thread becomes collecting only by `start`
\* at the last step of its preface, whose steps were confirmed in order
C37_CollectingOnlyAfterPreface ==
    [][\A t \in Threads :
        /\ StepsInOrder(t)
        /\ Entered(t) => StartAtLastStep(t)]_vars

\* C37 (amended): a thread becomes collecting only by `start` at the last
\* step of its preface, whose steps were confirmed in order, or by `start`
\* sent as a reply in a thread that has no conversation, as after `cancel`
C37_CollectingOnlyByStart ==
    [][\A t \in Threads :
        /\ StepsInOrder(t)
        /\ Entered(t) => StartAtLastStep(t) \/ StartWithoutConversation(t)]_vars

\* `start`, sent as a reply, has just made the thread collecting from nothing
C37_Witness ==
    /\ event.kind = "message" /\ event.has_thread /\ event.thread = MainThread
    /\ Message[event.text].start
    /\ Fresh(state[MainThread])
    /\ said = <<"WELCOME_TEXT", "first_question">>

\* the step handles a top-level message with text for which no conversation
\* exists
TopLevelWithoutConversation ==
    /\ event'.kind = "message"
    /\ event'.thread = MainThread
    /\ ~event'.has_thread
    /\ SentRaw # <<>>
    /\ Before.status = "none"

\* the conversation has just been created in the preface at step 1
PrefaceAtStepOne(c) == c.status = "preface" /\ c.preface_index = 1 /\ BlankSlate(c)

\* the original statement of C38: a top-level message with text for which no
\* conversation exists creates one in the preface at step 1, whatever the
\* sender's session
C38_TopLevelStartsPreface ==
    [][TopLevelWithoutConversation => PrefaceAtStepOne(After)]_vars

\* C38 (amended): such a message creates a conversation in the preface at
\* step 1, whatever the state of the sender's session, unless the session
\* has pending incident keys: then no conversation is created, the picker is
\* offered and the session waits for an incident
C38_TopLevelStartsPrefaceOrPicker ==
    [][TopLevelWithoutConversation
        => IF SESSIONS'[event'.user].pending_incident_keys = <<>>
           THEN /\ PrefaceAtStepOne(After)
                /\ said' = <<"PREFACE_TEXT", "preface_step_text">>
           ELSE /\ After = Before
                /\ said' = <<"pending_picker">>
                /\ SESSIONS'[event'.user].state = "WAITING_FOR_INCIDENT"]_vars

\* a top-level message of a sender whose session is active, with a linked
\* incident and none pending, has just started the preface
C38_Witness ==
    /\ event.kind = "message" /\ ~event.has_thread /\ event.thread = MainThread
    /\ PrefaceAtStepOne(state[MainThread])
    /\ SESSIONS[event.user].state = "ACTIVE"
    /\ SESSIONS[event.user].linked_issue_key # "None"
    /\ SESSIONS[event.user].pending_incident_keys = <<>>
    /\ said = <<"PREFACE_TEXT", "preface_step_text">>

\* C39: within collecting the cursor never decreases and stays between 0
\* and the number of questions
C39_CursorMonotone ==
    [][\A t \in Threads :
        /\ state'[t].status = "collecting"
           => state'[t].index >= 0 /\ state'[t].index <= NQuestions
        /\ (state[t].status = "collecting" /\ state'[t].status = "collecting")
           => state'[t].index >= state[t].index]_vars

\* an `edit` has just been handled in a conversation whose cursor is past
\* the first question
C39_Witness ==
    /\ event.kind = "message" /\ Message[event.text].cmd = "edit"
    /\ state[MainThread].status = "collecting"
    /\ state[MainThread].index >= 1
    /\ said # <<>>

\* a second thread of the same user in the same channel
OtherThread == MainThread + 1

\* messages that walk through the preface, answer, and revise or accept
TextsThreads == {<<"s", "t", "a", "r", "t">>, <<"y", "e", "s">>, <<" ", "f", "o", "o", " ">>}

\* a user sends a message in one of two threads of the DM channel
NextThreads ==
    \E t \in {MainThread, OtherThread}, text \in TextsThreads, has_thread \in BOOLEAN,
       user \in Users :
        handle_message_events(t, has_thread, text, user, <<" ", "D", "r", "a", "f", "t", ".", " ">>, {"ok"})

SpecThreads == Init /\ [][NextThreads]_vars

\* the parts of a conversation the questionnaire works on
Work(c) == <<c.data, c.index, c.pending, c.mode, c.confirm_action>>

\* C40: handling a message for one thread leaves the conversation of every
\* other thread as it is, and the record, cursor, proposal, mode and
\* confirm_action of a conversation change only when a message addressed to
\* its own thread is handled
C40_OtherThreadsUntouched ==
    [][\A t \in Threads :
        /\ (event'.kind = "message" /\ event'.thread # t) => state'[t] = state[t]
        /\ Work(state'[t]) # Work(state[t])
           => event'.kind = "message" /\ event'.thread = t]_vars

\* a message has just been answered with a proposal in the other thread
\* while the main thread holds a conversation with a committed answer
C40_Witness ==
    /\ event.kind = "message" /\ event.thread = OtherThread
    /\ said = <<"proposal">>
    /\ state[OtherThread].pending.field # 0
    /\ state[MainThread].status = "collecting"
    /\ state[MainThread].index >= 1
    /\ state[MainThread].pending.field = 0

====
